---- MODULE Spec2Model ----
(***************************************************************************)
(* State-machine model of the STATCOM dashboard (src/app.js): the module   *)
(* overview (indicator snapshot, worst-case aggregation, tile rendering,   *)
(* consistency validation), the hash router, and the alarms page (alarm    *)
(* generation from the snapshot, filtering, CSV export).                   *)
(*                                                                         *)
(* Representation.                                                         *)
(*  - A JavaScript object used as an insertion-ordered map (an indicator   *)
(*    map) is a sequence of entries [type, status]; Object.values and      *)
(*    Object.entries walk it in sequence order.                            *)
(*  - A string the code builds or inspects (a module id, a duration, a    *)
(*    timestamp, a CSV field) is the sequence of its pieces, each a string;*)
(*    a module id M007 is << "M", "0", "0", "7" >>.                        *)
(*  - A Date is its getTime() value, an integer number of milliseconds.    *)
(*  - A location hash is a sequence of tokens ("#", "/", a name).          *)
(*  - An exception thrown by a function is the field threw of its result.  *)
(***************************************************************************)
EXTENDS Integers, Sequences, FiniteSets, TLC

\* ------------------------------------------------------------------------
\* Bounds of the model
\* ------------------------------------------------------------------------

\* Pending hashchange events the model keeps in flight at once.
MaxPending == 1

\* Indicator positions of an aggregator input whose value is drawn freely.
MaxKeys == 3

\* Modules of a snapshot handed to the alarm generator.
MaxModules == 2

\* Leading indicator positions of a snapshot module whose status is drawn
\* freely (the others are OK).
MaxFaults == 2

\* The seeds of the random streams are 0 .. MaxSeed.
MaxSeed == 7

\* Hours the clock advances after page load.
MaxTicks == 1

\* Times setupEventListeners may have registered the click handlers.
MaxListeners == 2

\* Pieces of a field handed to escapeCSV.
MaxFieldLen == 3

\* Whole days of a duration handed to formatDuration.
MaxDays == 2

\* How many setTimeout(tryInit, 100) may be pending when the user navigates.
MaxTimers == 3

\* How many simulated connections may be pending at once.
MaxConnecting == 2

\* How many connect() and disconnect() calls an SSHClient gets.
MaxSshCalls == 3

\* ------------------------------------------------------------------------
\* Module overview: configuration constants
\* ------------------------------------------------------------------------

GRID_SIZE == 8

TOTAL_MODULES == GRID_SIZE * GRID_SIZE

STATUS_TYPES ==
    << "Gating OK", "Overtemp", "Comm Lost", "Power Supply Error",
       "Fan Fail", "Vdc Fault", "Sync Fault", "Interlock",
       "Voltage Level", "Current Level", "Thermal Status", "Self Test" >>

STATUS_VALUES ==
    [ OK       |-> [label |-> "OK",       class |-> "status-ok",       priority |-> 1],
      DEGRADED |-> [label |-> "DEGRADED", class |-> "status-degraded", priority |-> 2],
      WARNING  |-> [label |-> "WARNING",  class |-> "status-warning",  priority |-> 3],
      CRITICAL |-> [label |-> "CRITICAL", class |-> "status-critical", priority |-> 4] ]

\* The four labels STATUS_VALUES knows.
Levels == DOMAIN STATUS_VALUES

\* The decimal digit d as a one-character string.
Digit(d) == << "0", "1", "2", "3", "4", "5", "6", "7", "8", "9" >>[d + 1]

\* String(n) for an integer n, as its characters.
RECURSIVE ToDigits(_)
ToDigits(n) ==
    IF n < 0 THEN << "-" >> \o ToDigits(0 - n)
    ELSE IF n < 10 THEN << Digit(n) >>
    ELSE ToDigits(n \div 10) \o << Digit(n % 10) >>

\* `M${String(i).padStart(3, '0')}` for 1 <= i <= 999, as its characters.
ModuleId(i) == << "M", Digit(i \div 100), Digit((i \div 10) % 10), Digit(i % 10) >>

\* generateModules(): the ids M001 .. M<TOTAL_MODULES>, in order.
modules == [ i \in 1..TOTAL_MODULES |-> ModuleId(i) ]

\* Array.prototype.includes on a literal array.
Includes(arr, x) == \E k \in 1..Len(arr) : arr[k] = x

\* The status generateModuleData gives indicator statusIndex (0-based) of
\* module moduleNum (1-based).
GeneratedStatus(moduleNum, statusIndex) ==
    LET criticalModules == << 7, 15, 23, 38, 47, 59 >>
        warningModules  == << 3, 12, 29, 41, 53 >>
        degradedModules == << 5, 19, 35 >>
        n == Len(STATUS_TYPES)
    IN  IF Includes(criticalModules, moduleNum)
        THEN IF statusIndex = moduleNum % n \/ statusIndex = (moduleNum + 1) % n
             THEN "CRITICAL" ELSE "OK"
        ELSE IF Includes(warningModules, moduleNum)
        THEN IF statusIndex = moduleNum % n THEN "WARNING" ELSE "OK"
        ELSE IF Includes(degradedModules, moduleNum)
        THEN IF statusIndex = moduleNum % n THEN "DEGRADED" ELSE "OK"
        ELSE "OK"

\* A generateModuleData that stores only the indicators that are not OK.
generateModuleDataFaultsOnly ==
    [ id \in { modules[i] : i \in 1..TOTAL_MODULES } |->
        LET moduleNum == CHOOSE i \in 1..TOTAL_MODULES : modules[i] = id
            all == [ k \in 1..Len(STATUS_TYPES) |->
                       [type |-> STATUS_TYPES[k], status |-> GeneratedStatus(moduleNum, k - 1)] ]
            NotOK(e) == e.status # "OK"
        IN  SelectSeq(all, NotOK) ]

\* generateModuleData(): module id -> indicator map with the 12 keys in
\* STATUS_TYPES order.
generateModuleData ==
    [ id \in { modules[i] : i \in 1..TOTAL_MODULES } |->
        LET moduleNum == CHOOSE i \in 1..TOTAL_MODULES : modules[i] = id
        IN  [ k \in 1..Len(STATUS_TYPES) |->
                [type |-> STATUS_TYPES[k], status |-> GeneratedStatus(moduleNum, k - 1)] ] ]

\* Object.values(moduleStatuses)
ObjectValues(moduleStatuses) ==
    [ k \in 1..Len(moduleStatuses) |-> moduleStatuses[k].status ]

\* The forEach of getAggregateModuleStatus from value i on. Reading
\* STATUS_VALUES[status].priority of a label STATUS_VALUES does not hold
\* throws a TypeError, which ends the call.
RECURSIVE AggregateLoop(_, _, _, _)
AggregateLoop(vals, i, worstStatus, highestPriority) ==
    IF i > Len(vals)
    THEN [threw |-> FALSE, value |-> worstStatus]
    ELSE IF vals[i] \notin DOMAIN STATUS_VALUES
    THEN [threw |-> TRUE, value |-> "TypeError"]
    ELSE LET statusPriority == STATUS_VALUES[vals[i]].priority
         IN  IF statusPriority > highestPriority
             THEN AggregateLoop(vals, i + 1, vals[i], statusPriority)
             ELSE AggregateLoop(vals, i + 1, worstStatus, highestPriority)

\* An aggregator that keeps the first value it meets instead of the worst
\* (the comparison against highestPriority lost).
getAggregateFirstSeen(moduleStatuses) ==
    IF Len(moduleStatuses) = 0 THEN [threw |-> FALSE, value |-> "OK"]
    ELSE AggregateLoop(<< moduleStatuses[1].status >>, 1, "OK", 0)

\* An aggregator that walks STATUS_TYPES and reads moduleStatuses[statusType]
\* instead of walking Object.values: an absent key reads undefined, and
\* STATUS_VALUES[undefined].priority throws.
getAggregateByStatusTypes(moduleStatuses) ==
    AggregateLoop(
        [ k \in 1..Len(STATUS_TYPES) |->
            IF \E j \in 1..Len(moduleStatuses) : moduleStatuses[j].type = STATUS_TYPES[k]
            THEN moduleStatuses[CHOOSE j \in 1..Len(moduleStatuses) :
                                    moduleStatuses[j].type = STATUS_TYPES[k]].status
            ELSE "undefined" ],
        1, "OK", 0)

\* getAggregateModuleStatus(moduleStatuses): [threw, value].
getAggregateModuleStatus(moduleStatuses) ==
    AggregateLoop(ObjectValues(moduleStatuses), 1, "OK", 0)

\* A renderModuleGrid that colours the tile by the first indicator instead of
\* the aggregate.
RenderTileClassFirstIndicator(moduleStatuses) ==
    { "module-tile", STATUS_VALUES[moduleStatuses[1].status].class }

\* The class list renderModuleGrid gives the tile of one module.
RenderTileClass(moduleStatuses) ==
    { "module-tile", STATUS_VALUES[getAggregateModuleStatus(moduleStatuses).value].class }

\* The severity validateModuleConsistency reads back from a tile's classes.
DisplayedStatus(classList) ==
    IF "status-critical" \in classList THEN "CRITICAL"
    ELSE IF "status-warning" \in classList THEN "WARNING"
    ELSE IF "status-degraded" \in classList THEN "DEGRADED"
    ELSE "OK"

\* validateModuleConsistency(data) against the tiles of the document: the
\* issues pushed, in module order. A module without a tile is skipped.
validateModuleConsistency(data, tileOf) ==
    LET Issue(id) ==
            [ moduleId  |-> id,
              expected  |-> getAggregateModuleStatus(data[id]).value,
              displayed |-> DisplayedStatus(tileOf[id]) ]
        Bad(id) == id \in DOMAIN tileOf /\ Issue(id).displayed # Issue(id).expected
        bad == SelectSeq(modules, Bad)
    IN  [ k \in 1..Len(bad) |-> Issue(bad[k]) ]

\* What getAggregateModuleStatus writes to the console: it has no console
\* call, whatever its input.
AggregateConsole(moduleStatuses) == << >>

\* What a validation run writes to the console: the announcing console.log,
\* one console.warn per issue, then console.log or console.error.
ValidationConsole(issues) ==
    << "log" >> \o [ k \in 1..Len(issues) |-> "warn" ]
                \o << IF Len(issues) = 0 THEN "log" ELSE "error" >>

\* ------------------------------------------------------------------------
\* Router
\* ------------------------------------------------------------------------

routes ==
    [ config   |-> "view-config",
      overview |-> "view-module-overview",
      diagnostics |-> "view-diagnostics",
      trends   |-> "view-trends",
      alarms   |-> "view-alarms" ]

\* Route '/config' etc. as token sequences; RouteName gives the key of
\* `routes` a route names, or "none".
RouteName(route) ==
    IF Len(route) = 2 /\ route[1] = "/" /\ route[2] \in
          { "config", "module-overview", "diagnostics", "trends", "alarms" }
    THEN (CASE route[2] = "config" -> "config"
            [] route[2] = "module-overview" -> "overview"
            [] route[2] = "diagnostics" -> "diagnostics"
            [] route[2] = "trends" -> "trends"
            [] route[2] = "alarms" -> "alarms")
    ELSE "none"

\* A defaultRoute that is not a key of `routes`.
defaultRouteUnrouted == << "/", "home" >>

defaultRoute == << "/", "config" >>

\* The hashes the user puts in the address bar or reaches by a nav item:
\* the empty hash, two known routes and one that names no route.
Hashes ==
    { << >>, << "#", "/", "module-overview" >>, << "#", "/", "alarms" >>,
      << "#", "/", "bogus" >> }

\* hash.replace('#', ''): the first "#" removed.
RECURSIVE RemoveFirstHash(_)
RemoveFirstHash(h) ==
    IF h = << >> THEN << >>
    ELSE IF Head(h) = "#" THEN Tail(h)
    ELSE << Head(h) >> \o RemoveFirstHash(Tail(h))

\* The route handleRouteChange computes from location.hash.
RouteOfHash(h) ==
    LET r0 == RemoveFirstHash(h)
        r1 == IF r0 = << >> THEN defaultRoute ELSE r0
    IN  IF Head(r1) = "/" THEN r1 ELSE << "/" >> \o r1

\* ------------------------------------------------------------------------
\* Alarms page: constants and pure functions
\* ------------------------------------------------------------------------

MAX_DISPLAYED_CLEARED_ALARMS == 15

DEFAULT_TIME_RANGE_HOURS == 24

\* 60 * 60 * 1000
HOUR_MS == 60 * 60 * 1000

\* Page load time: 10 days after the epoch, so that the 7 days the
\* generator looks back stay positive.
Now0 == 10 * 24 * HOUR_MS

\* The module numbers generateAlarmsFromModuleData and populateModuleFilter
\* loop over (the literal 64 of both loops).
ALARM_MODULE_COUNT == 64

\* ALARM_MESSAGES, in the order of its keys.
ALARM_MESSAGES ==
    << [type |-> "Overtemp",           message |-> "Overtemp threshold exceeded"],
       [type |-> "Comm Lost",          message |-> "Communication timeout"],
       [type |-> "Voltage Level",      message |-> "Voltage out of range"],
       [type |-> "Fan Fail",           message |-> "Fan failure detected"],
       [type |-> "Power Supply Error", message |-> "Power supply error"],
       [type |-> "Vdc Fault",          message |-> "DC voltage fault"],
       [type |-> "Current Level",      message |-> "Current level abnormal"],
       [type |-> "Thermal Status",     message |-> "Thermal status warning"],
       [type |-> "Gating OK",          message |-> "Gating signal error"],
       [type |-> "Sync Fault",         message |-> "Synchronization fault"],
       [type |-> "Interlock",          message |-> "Interlock triggered"],
       [type |-> "Self Test",          message |-> "Self test failure"] >>

\* getAlarmMessage(statusType): the table's message, else the type itself.
getAlarmMessage(statusType) ==
    IF \E k \in 1..Len(ALARM_MESSAGES) : ALARM_MESSAGES[k].type = statusType
    THEN ALARM_MESSAGES[CHOOSE k \in 1..Len(ALARM_MESSAGES) :
                            ALARM_MESSAGES[k].type = statusType].message
    ELSE statusType

\* A formatDuration whose days form prints the total hours, not the hours
\* left over: `${days}d ${hours}h`.
formatDurationTotalHours(milliseconds) ==
    LET seconds == milliseconds \div 1000
        minutes == seconds \div 60
        hours   == minutes \div 60
        days    == hours \div 24
    IN  IF days > 0
        THEN ToDigits(days) \o << "d", " " >> \o ToDigits(hours) \o << "h" >>
        ELSE IF hours > 0
        THEN ToDigits(hours) \o << "h", " " >> \o ToDigits(minutes % 60) \o << "m" >>
        ELSE IF minutes > 0 THEN ToDigits(minutes) \o << "m" >>
        ELSE ToDigits(seconds) \o << "s" >>

\* formatDuration(milliseconds): the string as its pieces, e.g.
\* << "1", "d", " ", "3", "h" >> for "1d 3h". \div floors, like Math.floor.
formatDuration(milliseconds) ==
    LET seconds == milliseconds \div 1000
        minutes == seconds \div 60
        hours   == minutes \div 60
        days    == hours \div 24
    IN  IF days > 0
        THEN ToDigits(days) \o << "d", " " >> \o ToDigits(hours % 24) \o << "h" >>
        ELSE IF hours > 0
        THEN ToDigits(hours) \o << "h", " " >> \o ToDigits(minutes % 60) \o << "m" >>
        ELSE IF minutes > 0 THEN ToDigits(minutes) \o << "m" >>
        ELSE ToDigits(seconds) \o << "s" >>

\* Math.random() is a draw k / RandDen with k in 0 .. RandDen - 1. RandDen
\* divides every range the code multiplies a draw by, so r * range is a
\* whole number of milliseconds and new Date(...) truncates nothing.
RandDen == 8

\* A stream of draws: draw number i (from 0) of the stream [seed, stride].
Rand(stream, i) == (stream.seed + i * stream.stride) % RandDen

\* Math.random() * range for the draw k.
Scale(k, range) == k * (range \div RandDen)

\* Math.floor(Math.random() * n) for the draw k and a small n.
FloorScale(k, n) == (k * n) \div RandDen

\* Math.random() > 0.6 for the draw k.
DrawClears(k) == 10 * k > 6 * RandDen

\* The alarm record of generateAlarmsFromModuleData. An absent clearedAt or
\* duration is << >>, a present one << value >>. The field seeded is not in
\* the code: it tells the records of the second loop (the extra cleared
\* alarms) from those derived from the snapshot, and no operation reads it.
AlarmRecord(moduleId, type, severity, activatedAt, clearedAt, duration, seeded) ==
    [ moduleId |-> moduleId, type |-> type, severity |-> severity,
      activatedAt |-> activatedAt, clearedAt |-> clearedAt,
      duration |-> duration, seeded |-> seeded ]

\* A first loop that takes DEGRADED for healthy and makes no alarm for it.
NonOKEntriesSkipDegraded(moduleId, statuses) ==
    LET NonOK(e) == e.status # "OK" /\ e.status # "DEGRADED"
        es == SelectSeq(statuses, NonOK)
    IN  [ k \in 1..Len(es) |->
            [moduleId |-> moduleId, type |-> es[k].type, status |-> es[k].status] ]

\* The entries of one module's indicator map whose status is not 'OK', in
\* Object.entries order.
NonOKEntries(moduleId, statuses) ==
    LET NonOK(e) == e.status # "OK"
        es == SelectSeq(statuses, NonOK)
    IN  [ k \in 1..Len(es) |->
            [moduleId |-> moduleId, type |-> es[k].type, status |-> es[k].status] ]

\* The (module, indicator) pairs the first loop makes an alarm for, in loop
\* order, from module number i on; a module the snapshot lacks is skipped.
RECURSIVE AlarmCandidates(_, _)
AlarmCandidates(snapshot, i) ==
    IF i > ALARM_MODULE_COUNT THEN << >>
    ELSE IF ModuleId(i) \notin DOMAIN snapshot THEN AlarmCandidates(snapshot, i + 1)
    ELSE NonOKEntries(ModuleId(i), snapshot[ModuleId(i)])
             \o AlarmCandidates(snapshot, i + 1)

\* A first loop without the test clearTime < now: a candidate drawn to clear
\* is put in the cleared list whenever its clearing time falls.
CandidateAlarmNoFutureTest(cand, tnow, stream, d) ==
    LET activatedAt == tnow - Scale(Rand(stream, d), 6 * HOUR_MS)
    IN  IF DrawClears(Rand(stream, d + 1))
        THEN LET clearTime == activatedAt + Scale(Rand(stream, d + 2), 4 * HOUR_MS)
             IN  [ alarm |-> [ moduleId |-> cand.moduleId, type |-> cand.type,
                               severity |-> cand.status, activatedAt |-> activatedAt,
                               clearedAt |-> << clearTime >>,
                               duration |-> << formatDuration(clearTime - activatedAt) >>,
                               seeded |-> FALSE ],
                   cleared |-> TRUE, used |-> 3 ]
        ELSE [ alarm |-> [ moduleId |-> cand.moduleId, type |-> cand.type,
                           severity |-> cand.status, activatedAt |-> activatedAt,
                           clearedAt |-> << >>, duration |-> << >>, seeded |-> FALSE ],
               cleared |-> FALSE, used |-> 2 ]

\* The alarm made for one candidate with the draws d, d+1 (and d+2) of the
\* stream: [alarm, cleared, used].
CandidateAlarm(cand, tnow, stream, d) ==
    LET activatedAt == tnow - Scale(Rand(stream, d), 6 * HOUR_MS)
    IN  IF DrawClears(Rand(stream, d + 1))
        THEN LET clearTime == activatedAt + Scale(Rand(stream, d + 2), 4 * HOUR_MS)
             IN  IF clearTime < tnow
                 THEN [ alarm |-> AlarmRecord(cand.moduleId, cand.type, cand.status,
                                      activatedAt, << clearTime >>,
                                      << formatDuration(clearTime - activatedAt) >>, FALSE),
                        cleared |-> TRUE, used |-> 3 ]
                 ELSE [ alarm |-> AlarmRecord(cand.moduleId, cand.type, cand.status,
                                      activatedAt, << >>, << >>, FALSE),
                        cleared |-> FALSE, used |-> 3 ]
        ELSE [ alarm |-> AlarmRecord(cand.moduleId, cand.type, cand.status,
                             activatedAt, << >>, << >>, FALSE),
               cleared |-> FALSE, used |-> 2 ]

\* The first loop from candidate j on: the lists in push order and the
\* number of the next draw.
RECURSIVE FirstLoop(_, _, _, _, _, _, _)
FirstLoop(cands, j, tnow, stream, d, activeAlarms, clearedAlarms) ==
    IF j > Len(cands)
    THEN [ active |-> activeAlarms, cleared |-> clearedAlarms, next |-> d ]
    ELSE LET c == CandidateAlarm(cands[j], tnow, stream, d)
         IN  IF c.cleared
             THEN FirstLoop(cands, j + 1, tnow, stream, d + c.used,
                            activeAlarms, Append(clearedAlarms, c.alarm))
             ELSE FirstLoop(cands, j + 1, tnow, stream, d + c.used,
                            Append(activeAlarms, c.alarm), clearedAlarms)

\* An additionalClearedCount of 20 + Math.floor(Math.random() * 22).
AdditionalClearedCountUpTo41(k) == 20 + FloorScale(k, 22)

\* additionalClearedCount for the draw k: 20 + Math.floor(k/RandDen * 11).
AdditionalClearedCount(k) == 20 + FloorScale(k, 11)

\* A second loop that draws clearedAt in the 7 days before now on its own,
\* not from activatedAt on.
ExtraAlarmClearDrawnAlone(tnow, stream, d) ==
    LET activatedAt == tnow - Scale(Rand(stream, d + 3), 7 * 24 * HOUR_MS)
        clearedAt   == tnow - Scale(Rand(stream, d + 4), 7 * 24 * HOUR_MS)
    IN  IF clearedAt < tnow
        THEN << [ moduleId |-> ModuleId(1), type |-> "Overtemp", severity |-> "WARNING",
                  activatedAt |-> activatedAt, clearedAt |-> << clearedAt >>,
                  duration |-> << formatDuration(clearedAt - activatedAt) >>,
                  seeded |-> TRUE ] >>
        ELSE << >>

\* The extra cleared alarm made with the draws d .. d+4, as << alarm >>, or
\* << >> when its clearedAt is not in the past.
ExtraAlarm(tnow, stream, d) ==
    LET moduleNum   == FloorScale(Rand(stream, d), ALARM_MODULE_COUNT) + 1
        statusType  == ALARM_MESSAGES[FloorScale(Rand(stream, d + 1),
                                                 Len(ALARM_MESSAGES)) + 1].type
        severities  == << "CRITICAL", "WARNING", "DEGRADED" >>
        severity    == severities[FloorScale(Rand(stream, d + 2), Len(severities)) + 1]
        activatedAt == tnow - Scale(Rand(stream, d + 3), 7 * 24 * HOUR_MS)
        clearedAt   == activatedAt + Scale(Rand(stream, d + 4), 12 * HOUR_MS)
    IN  IF clearedAt < tnow
        THEN << AlarmRecord(ModuleId(moduleNum), statusType, severity, activatedAt,
                            << clearedAt >>,
                            << formatDuration(clearedAt - activatedAt) >>, TRUE) >>
        ELSE << >>

\* The second loop from iteration i (from 0) on, appended to clearedAlarms.
RECURSIVE SecondLoop(_, _, _, _, _, _)
SecondLoop(i, count, tnow, stream, d, clearedAlarms) ==
    IF i >= count THEN clearedAlarms
    ELSE SecondLoop(i + 1, count, tnow, stream, d + 5,
                    clearedAlarms \o ExtraAlarm(tnow, stream, d))

\* severityPriority of the sort of the active alarms.
severityPriority(severity) ==
    CASE severity = "CRITICAL" -> 3 [] severity = "WARNING" -> 2 [] severity = "DEGRADED" -> 1

\* The comparator of activeAlarms.sort.
CompareActive(a, b) ==
    LET severityDiff == severityPriority(b.severity) - severityPriority(a.severity)
    IN  IF severityDiff # 0 THEN severityDiff ELSE b.activatedAt - a.activatedAt

\* A comparator for clearedAlarms.sort with its operands swapped: oldest
\* clearing first.
CompareClearedOldestFirst(a, b) == a.clearedAt[1] - b.clearedAt[1]

\* The comparator of clearedAlarms.sort.
CompareCleared(a, b) == b.clearedAt[1] - a.clearedAt[1]

\* Array.prototype.sort is stable: x goes before the first element the
\* comparator puts after it.
RECURSIVE InsertActive(_, _)
InsertActive(sorted, x) ==
    IF sorted = << >> THEN << x >>
    ELSE IF CompareActive(x, Head(sorted)) < 0 THEN << x >> \o sorted
    ELSE << Head(sorted) >> \o InsertActive(Tail(sorted), x)

RECURSIVE SortActive(_, _)
SortActive(list, n) ==
    IF n = 0 THEN << >> ELSE InsertActive(SortActive(list, n - 1), list[n])

RECURSIVE InsertCleared(_, _)
InsertCleared(sorted, x) ==
    IF sorted = << >> THEN << x >>
    ELSE IF CompareCleared(x, Head(sorted)) < 0 THEN << x >> \o sorted
    ELSE << Head(sorted) >> \o InsertCleared(Tail(sorted), x)

RECURSIVE SortCleared(_, _)
SortCleared(list, n) ==
    IF n = 0 THEN << >> ELSE InsertCleared(SortCleared(list, n - 1), list[n])

\* generateAlarmsFromModuleData() at time tnow on the snapshot that
\* window.STATCOM.getModuleData() returns, with the draws of stream.
generateAlarmsFromModuleData(snapshot, tnow, stream) ==
    LET first == FirstLoop(AlarmCandidates(snapshot, 1), 1, tnow, stream, 0, << >>, << >>)
        count == AdditionalClearedCount(Rand(stream, first.next))
        clearedAlarms == SecondLoop(0, count, tnow, stream, first.next + 1, first.cleared)
    IN  [ active  |-> SortActive(first.active, Len(first.active)),
          cleared |-> SortCleared(clearedAlarms, Len(clearedAlarms)) ]

\* An `hours` table whose entry for '7d' is 7, the days not turned into
\* hours.
TimeRangeHoursDaysAsHours(timeRange) ==
    CASE timeRange = "1h" -> 1
      [] timeRange = "6h" -> 6
      [] timeRange = "24h" -> DEFAULT_TIME_RANGE_HOURS
      [] timeRange = "7d" -> 7
      [] OTHER -> DEFAULT_TIME_RANGE_HOURS

\* The time-range tokens with a threshold in hours (the `hours` table).
TimeRangeHours(timeRange) ==
    CASE timeRange = "1h" -> 1
      [] timeRange = "6h" -> 6
      [] timeRange = "24h" -> DEFAULT_TIME_RANGE_HOURS
      [] timeRange = "7d" -> 168
      [] OTHER -> DEFAULT_TIME_RANGE_HOURS

\* timeCutoff of applyFilters: << >> (null) or << the cutoff time >>.
TimeCutoff(filters, tnow) ==
    IF filters.timeRange # "all"
    THEN << tnow - TimeRangeHours(filters.timeRange) * HOUR_MS >>
    ELSE << >>

\* A filter callback for the active alarms that lets an alarm pass when it
\* passes the severity test or the module test (|| for &&).
KeepActiveEither(alarm, filters, timeCutoff) ==
    IF (filters.severity # "ALL" /\ alarm.severity # filters.severity)
       /\ (filters.module # << "ALL" >> /\ alarm.moduleId # filters.module) THEN FALSE
    ELSE IF timeCutoff # << >> /\ alarm.activatedAt < timeCutoff[1] THEN FALSE
    ELSE TRUE

\* The callback of alarmsData.active.filter.
KeepActive(alarm, filters, timeCutoff) ==
    IF filters.severity # "ALL" /\ alarm.severity # filters.severity THEN FALSE
    ELSE IF filters.module # << "ALL" >> /\ alarm.moduleId # filters.module THEN FALSE
    ELSE IF timeCutoff # << >> /\ alarm.activatedAt < timeCutoff[1] THEN FALSE
    ELSE TRUE

\* A filter callback for the cleared alarms copied from the one for the
\* active alarms: the time test still reads activatedAt.
KeepClearedByActivation(alarm, filters, timeCutoff) ==
    IF filters.severity # "ALL" /\ alarm.severity # filters.severity THEN FALSE
    ELSE IF filters.module # << "ALL" >> /\ alarm.moduleId # filters.module THEN FALSE
    ELSE IF timeCutoff # << >> /\ alarm.activatedAt < timeCutoff[1] THEN FALSE
    ELSE TRUE

\* The callback of alarmsData.cleared.filter.
KeepCleared(alarm, filters, timeCutoff) ==
    IF filters.severity # "ALL" /\ alarm.severity # filters.severity THEN FALSE
    ELSE IF filters.module # << "ALL" >> /\ alarm.moduleId # filters.module THEN FALSE
    ELSE IF timeCutoff # << >> /\ alarm.clearedAt[1] < timeCutoff[1] THEN FALSE
    ELSE TRUE

\* The sequence s back to front.
Reverse(s) == [ k \in 1..Len(s) |-> s[Len(s) + 1 - k] ]

\* An applyFilters that collects the kept alarms with unshift: each list
\* comes out back to front.
applyFiltersUnshift(data, filters, tnow) ==
    LET timeCutoff == TimeCutoff(filters, tnow)
        Active(alarm) == KeepActive(alarm, filters, timeCutoff)
        Cleared(alarm) == KeepCleared(alarm, filters, timeCutoff)
    IN  [ active  |-> Reverse(SelectSeq(data.active, Active)),
          cleared |-> Reverse(SelectSeq(data.cleared, Cleared)) ]

\* applyFilters(): the new filteredAlarmsData.
applyFilters(data, filters, tnow) ==
    LET timeCutoff == TimeCutoff(filters, tnow)
        Active(alarm) == KeepActive(alarm, filters, timeCutoff)
        Cleared(alarm) == KeepCleared(alarm, filters, timeCutoff)
    IN  [ active  |-> SelectSeq(data.active, Active),
          cleared |-> SelectSeq(data.cleared, Cleared) ]

\* A string is the sequence of its pieces; a comma, a double quote, a line
\* feed and a carriage return are always pieces of their own.
Str(x) == << x >>

\* String(i).padStart(2, '0') for 0 <= i <= 99, as its two digits.
Pad2(i) == << Digit(i \div 10), Digit(i % 10) >>

\* The civil date [year, month, day] of a day number counted from
\* 1970-01-01 (what getFullYear, getMonth() + 1 and getDate give; the
\* local time zone is taken to be UTC).
CivilFromDays(dayNumber) ==
    LET z   == dayNumber + 719468
        era == z \div 146097
        doe == z - era * 146097
        yoe == (doe - doe \div 1460 + doe \div 36524 - doe \div 146096) \div 365
        doy == doe - (365 * yoe + yoe \div 4 - yoe \div 100)
        mp  == (5 * doy + 2) \div 153
        day == doy - (153 * mp + 2) \div 5 + 1
        month == IF mp < 10 THEN mp + 3 ELSE mp - 9
        year  == yoe + era * 400 + (IF month <= 2 THEN 1 ELSE 0)
    IN  [year |-> year, month |-> month, day |-> day]

\* formatTimestamp(date): `YYYY-MM-DD HH:MM:SS`.
formatTimestamp(date) ==
    LET secs == date \div 1000
        d    == CivilFromDays(secs \div 86400)
        sod  == secs % 86400
    IN  ToDigits(d.year) \o << "-" >> \o Pad2(d.month) \o << "-" >> \o Pad2(d.day) \o << " " >>
           \o Pad2(sod \div 3600) \o << ":" >> \o Pad2((sod \div 60) % 60)
           \o << ":" >> \o Pad2(sod % 60)

\* str.replace(/"/g, '""')
RECURSIVE DoubleQuotes(_)
DoubleQuotes(str) ==
    IF str = << >> THEN << >>
    ELSE IF Head(str) = "\"" THEN << "\"", "\"" >> \o DoubleQuotes(Tail(str))
    ELSE << Head(str) >> \o DoubleQuotes(Tail(str))

\* str.includes(piece)
StrIncludes(str, piece) == \E k \in 1..Len(str) : str[k] = piece

\* escapeCSV(field) for a string field (null and undefined are handled by
\* the caller's branches in this model).
escapeCSV(str) ==
    IF StrIncludes(str, ",") \/ StrIncludes(str, "\"") \/ StrIncludes(str, "\n")
    THEN << "\"" >> \o DoubleQuotes(str) \o << "\"" >>
    ELSE str

\* getActiveDuration(activatedAt) at time tnow.
getActiveDuration(activatedAt, tnow) ==
    << "Active for " >> \o formatDuration(tnow - activatedAt)

\* The header line of the CSV, as its fields.
CSV_HEADER ==
    << Str("Severity"), Str("Module"), Str("Status"), Str("Triggered Time"),
       Str("Cleared Time"), Str("Duration"), Str("Message") >>

\* The CSV row exportToCSV writes for one element of allAlarms, as its
\* seven fields; status is 'Active' or 'Cleared'. An active alarm has had
\* its clearedAt set to null by the spread.
CsvRow(alarm, status, tnow) ==
    LET clearedAt == IF status = "Active" THEN << >> ELSE alarm.clearedAt
    IN  << escapeCSV(Str(alarm.severity)),
           escapeCSV(alarm.moduleId),
           escapeCSV(Str(status)),
           escapeCSV(formatTimestamp(alarm.activatedAt)),
           IF clearedAt # << >> THEN escapeCSV(formatTimestamp(clearedAt[1])) ELSE << >>,
           IF alarm.duration # << >> THEN escapeCSV(alarm.duration[1])
           ELSE IF status = "Active"
                THEN escapeCSV(getActiveDuration(alarm.activatedAt, tnow))
                ELSE << >>,
           escapeCSV(Str(getAlarmMessage(alarm.type))) >>

\* A CSV text built from [...cleared, ...active]: the cleared rows come
\* first.
CsvDocumentClearedFirst(filtered, tnow) ==
    << CSV_HEADER >>
      \o [ k \in 1..Len(filtered.cleared) |-> CsvRow(filtered.cleared[k], "Cleared", tnow) ]
      \o [ k \in 1..Len(filtered.active) |-> CsvRow(filtered.active[k], "Active", tnow) ]

\* The CSV text exportToCSV builds from the filtered view, as its lines
\* (header first), each line as its fields.
CsvDocument(filtered, tnow) ==
    << CSV_HEADER >>
      \o [ k \in 1..Len(filtered.active) |-> CsvRow(filtered.active[k], "Active", tnow) ]
      \o [ k \in 1..Len(filtered.cleared) |-> CsvRow(filtered.cleared[k], "Cleared", tnow) ]

\* What renderAlarms puts in the document for a filtered view: the two
\* counts, and the number of cleared rows shown.
renderAlarms(filtered) ==
    [ activeCount  |-> Len(filtered.active),
      clearedCount |-> Len(filtered.cleared),
      clearedShown |-> IF Len(filtered.cleared) > MAX_DISPLAYED_CLEARED_ALARMS
                       THEN MAX_DISPLAYED_CLEARED_ALARMS ELSE Len(filtered.cleared) ]

\* ------------------------------------------------------------------------
\* State
\* ------------------------------------------------------------------------

VARIABLES
    moduleData,         \* module id -> indicator map (<< >> before initModuleOverview)
    tiles,              \* module id -> class list of its tile (<< >> before rendering)
    selectedModuleId,   \* << >> (null) or a module id
    detailPanel,        \* #module-detail-panel: << >> (empty), << "legend" >> or a module id
    validateTimer,      \* the setTimeout(..., 100) of initModuleOverview is pending
    inconsistencies,    \* what the last validateModuleConsistency returned
    validations,        \* whether validateModuleConsistency has run
    hash,               \* window.location.hash
    pendingHashChange,  \* hashchange events queued, not yet handled
    activeViews,        \* the view elements carrying class "active"
    activeNavItems,     \* the routes whose nav item carries class "active"
    console,            \* the levels the last logging operation wrote to the console
    aggInput,           \* StatusAggregator harness: the indicator map handed in
    aggOutput,          \* StatusAggregator harness: << >> or << the call's [threw, value] >>
    call,               \* formatter harness: << >> or [fn, args], the call to make
    callResult,         \* formatter harness: << >> or << what the call returned >>
    now,                \* the clock: what new Date().getTime() returns
    alarmsData,         \* the canonical { active, cleared }
    filteredAlarmsData, \* the filtered { active, cleared }
    currentFilters,     \* { severity, timeRange, module }
    listeners,          \* how many times setupEventListeners has registered the handlers
    rendered,           \* what renderAlarms last put in the document
    csv,                \* << the CSV document the last step handed to the browser >>, else << >>
    notification,       \* the text the last step passed to showNotification, else ""
    generatedAt,        \* history: << >> or << the time of the generation >>
    drawn,              \* history: << >> or << the random stream of the generation >>
    filteredAt,         \* history: << >> or << the time of the last applyFilters >>
    reader,             \* << >> or << what a holder of the filteredAlarmsData object read from it >>
    redirected,         \* history: the hash is the one a redirect of navigateToRoute has set
    domContentLoaded,   \* the router's DOMContentLoaded listener has run
    observerPending,    \* class mutations of #view-alarms its MutationObserver has yet to be told
    alarmsSetup,        \* setupAlarmsInitialization has run: the observer is registered
    tryInitTimers,      \* pending setTimeout(tryInit, 100)
    charts,             \* Trends: << >> before initTrends, else << [module, range, colors] >>
    connectionState,    \* { isConnected, ipAddress, port, lastConnected, connectionAttempts }
    connectionInputs,   \* the values of #ip-address-input, #port-input, #password-input
    connectionUi,       \* the connect and disconnect buttons, the badge and the status text
    pendingConnections, \* the simulateConnection timers not yet fired, oldest first
    errorTimers,        \* pending 3-second setTimeout of the catch handler
    validatedAtClick,   \* history: << >> or << the ip and port the last resolved attempt validated >>
    sshClient,          \* << >> or << the members of the one SSHClient object >>
    sshLibrary,         \* what the client holds of libssh2 and the system: sessions, sockets
    sshHistory,         \* history: how the last connect() or disconnect() ended, calls made
    sshReturned         \* << >> or << what the last isConnected() returned, and when >>

overviewVars == << moduleData, tiles, selectedModuleId, detailPanel,
                   validateTimer, inconsistencies, validations >>

aggVars == << aggInput, aggOutput >>

callVars == << call, callResult >>

alarmVars == << now, alarmsData, filteredAlarmsData, currentFilters, listeners,
                rendered, csv, notification, generatedAt, drawn, filteredAt >>

routerVars == << hash, pendingHashChange, activeViews, activeNavItems, observerPending,
                 domContentLoaded, redirected >>

\* What the operations of the overview, the router and the alarms page
\* never touch.
connVars == << connectionState, connectionInputs, connectionUi, pendingConnections,
              errorTimers, validatedAtClick >>

pageVars == << reader, alarmsSetup, tryInitTimers, charts, connVars >>

sshVars == << sshClient, sshLibrary, sshHistory, sshReturned >>

sideVars == << callVars, sshVars, pageVars >>

vars == << overviewVars, routerVars, console, aggVars, sideVars, alarmVars >>

\* ------------------------------------------------------------------------
\* Module overview: operations
\* ------------------------------------------------------------------------

\* renderModuleGrid(): one tile per module, classed by the aggregate.
renderModuleGrid(data) ==
    [ id \in { modules[i] : i \in 1..TOTAL_MODULES } |-> RenderTileClass(data[id]) ]

\* initModuleOverview(), run once on DOMContentLoaded.
InitModuleOverview ==
    /\ DOMAIN moduleData = {}
    /\ moduleData' = generateModuleData
    /\ tiles' = renderModuleGrid(generateModuleData)
    /\ detailPanel' = << "legend" >>
    /\ validateTimer' = TRUE
    /\ UNCHANGED << selectedModuleId, inconsistencies, validations, routerVars,
                    console, aggVars, sideVars, alarmVars >>

\* The timer callback of initModuleOverview.
ValidateTimerFires ==
    /\ validateTimer
    /\ validateTimer' = FALSE
    /\ inconsistencies' = validateModuleConsistency(moduleData, tiles)
    /\ validations' = TRUE
    /\ console' = ValidationConsole(inconsistencies')
    /\ UNCHANGED << moduleData, tiles, selectedModuleId, detailPanel, routerVars, aggVars, sideVars, alarmVars >>

\* window.STATCOM.validateModules(), callable once the script has run.
ValidateModules ==
    /\ DOMAIN moduleData # {}
    /\ inconsistencies' = validateModuleConsistency(moduleData, tiles)
    /\ validations' = TRUE
    /\ console' = ValidationConsole(inconsistencies')
    /\ UNCHANGED << moduleData, tiles, selectedModuleId, detailPanel,
                    validateTimer, routerVars, aggVars, sideVars, alarmVars >>

\* updateSelectedModule(moduleId): 'selected' moves to the clicked tile.
updateSelectedModule(tileOf, moduleId) ==
    [ id \in DOMAIN tileOf |->
        IF id = moduleId THEN tileOf[id] \cup { "selected" }
        ELSE tileOf[id] \ { "selected" } ]

\* handleModuleClick on the tile of module moduleId.
HandleModuleClick(moduleId) ==
    /\ moduleId \in DOMAIN tiles
    /\ selectedModuleId' = moduleId
    /\ tiles' = updateSelectedModule(tiles, moduleId)
    /\ detailPanel' = moduleId
    /\ UNCHANGED << moduleData, validateTimer, inconsistencies, validations, routerVars,
                    console, aggVars, sideVars, alarmVars >>

\* ------------------------------------------------------------------------
\* Router: operations
\* ------------------------------------------------------------------------

\* Assigning window.location.hash: a hashchange event is queued when the
\* value changes.
SetHash(h) ==
    /\ hash' = h
    /\ pendingHashChange' = IF h = hash THEN pendingHashChange ELSE pendingHashChange + 1

\* The user edits the hash or clicks a nav item.
UserNavigates(h) ==
    /\ pendingHashChange < MaxPending
    /\ h # hash
    /\ SetHash(h)
    /\ redirected' = FALSE
    /\ UNCHANGED << activeViews, activeNavItems, observerPending, domContentLoaded,
                    overviewVars, console, aggVars, sideVars, alarmVars >>

\* The records navigateToRoute leaves for the observer of #view-alarms,
\* once it is registered: one for classList.remove('active') on every
\* view, one more for classList.add('active') when the view is the target.
ClassMutations(name) ==
    IF ~alarmsSetup THEN 0 ELSE IF name = "alarms" THEN 2 ELSE 1

\* A navigateToRoute that shows the target view without hiding the others.
handleRouteChangeKeepViews(consumed) ==
    LET route == RouteOfHash(hash)
        name  == RouteName(route)
    IN  IF name = "none"
        THEN /\ hash' = << "#" >> \o defaultRoute
             /\ pendingHashChange' = pendingHashChange - consumed + (IF hash' # hash THEN 1 ELSE 0)
             /\ redirected' = TRUE
             /\ UNCHANGED << activeViews, activeNavItems, observerPending >>
        ELSE /\ activeViews' = activeViews \cup { routes[name] }
             /\ activeNavItems' = { route }
             /\ pendingHashChange' = pendingHashChange - consumed
             /\ observerPending' = ClassMutations(name)
             /\ UNCHANGED << hash, redirected >>

\* handleRouteChange -> navigateToRoute -> updateActiveNavItem, taking
\* `consumed` hashchange events off the queue (1 as the hashchange
\* listener, 0 when called otherwise). It reads location.hash as it is now.
handleRouteChange(consumed) ==
    LET route == RouteOfHash(hash)
        name  == RouteName(route)
    IN  IF name = "none"
        THEN \* the redirect changes the hash, which queues a new event
             /\ hash' = << "#" >> \o defaultRoute
             /\ pendingHashChange' = pendingHashChange - consumed + (IF hash' # hash THEN 1 ELSE 0)
             /\ redirected' = TRUE
             /\ UNCHANGED << activeViews, activeNavItems, observerPending >>
        ELSE /\ activeViews' = { routes[name] }
             /\ activeNavItems' = { route }
             /\ pendingHashChange' = pendingHashChange - consumed
             /\ observerPending' = ClassMutations(name)
             /\ UNCHANGED << hash, redirected >>

\* The hashchange listener, run for one queued event.
HandleRouteChange ==
    /\ pendingHashChange > 0
    /\ observerPending = 0
    /\ handleRouteChange(1)
    /\ UNCHANGED << domContentLoaded, overviewVars, console, aggVars, sideVars, alarmVars >>

\* The DOMContentLoaded listener of the router: handleRouteChange again.
RouterDOMContentLoaded ==
    /\ ~domContentLoaded
    /\ observerPending = 0
    /\ domContentLoaded' = TRUE
    /\ handleRouteChange(0)
    /\ UNCHANGED << overviewVars, console, aggVars, sideVars, alarmVars >>

\* ------------------------------------------------------------------------
\* Alarms page: operations
\* ------------------------------------------------------------------------

\* The random streams a generation draws from.
Streams == [ seed : 0..MaxSeed, stride : { 0, 7 } ]

\* The values of the three filter selects.
SeverityChoices == { "ALL", "DEGRADED", "WARNING", "CRITICAL" }

TimeRangeChoices == { "1h", "6h", "24h", "7d", "all", "ALL" }

ModuleChoices == { << "ALL" >>, ModuleId(1), ModuleId(9) }

\* initAlarms() with the draws of stream: populateModuleFilter,
\* generation, applyFilters, setupEventListeners, renderAlarms.
initAlarms(stream) ==
    /\ alarmsData' = generateAlarmsFromModuleData(moduleData, now, stream)
    /\ filteredAlarmsData' = applyFilters(alarmsData', currentFilters, now)
    /\ listeners' = listeners + 1
    /\ rendered' = renderAlarms(filteredAlarmsData')
    /\ generatedAt' = << now >>
    /\ drawn' = << stream >>
    /\ filteredAt' = << now >>
    /\ csv' = << >>
    /\ notification' = ""

\* initAlarms() as tryInit calls it, when module data is there, the view
\* is shown and nothing has been generated yet.
InitAlarms(stream) ==
    /\ DOMAIN moduleData # {}
    /\ routes["alarms"] \in activeViews
    /\ alarmsData.active = << >> /\ alarmsData.cleared = << >>
    /\ listeners < MaxListeners
    /\ initAlarms(stream)
    /\ UNCHANGED << now, currentFilters, overviewVars, routerVars, console, aggVars, sideVars >>

\* What tryInit leaves of the alarms page when it does not call initAlarms.
AlarmsUntouched ==
    UNCHANGED << alarmsData, filteredAlarmsData, listeners, rendered, generatedAt,
                 drawn, filteredAt, csv, notification >>

\* A tryInit that calls initAlarms whenever the view is shown, generated
\* or not.
tryInitEveryTime(stream, timers) ==
    IF DOMAIN moduleData = {}
    THEN /\ tryInitTimers' = timers + 1
         /\ AlarmsUntouched
    ELSE IF routes["alarms"] \in activeViews
    THEN /\ initAlarms(stream)
         /\ tryInitTimers' = timers
    ELSE /\ tryInitTimers' = timers
         /\ AlarmsUntouched

\* tryInit() with timers other setTimeout(tryInit, 100) pending: it
\* re-arms itself while window.STATCOM.getModuleData() is empty, and calls
\* initAlarms when the view is shown and both canonical lists are empty.
tryInit(stream, timers) ==
    IF DOMAIN moduleData = {}
    THEN /\ tryInitTimers' = timers + 1
         /\ AlarmsUntouched
    ELSE IF /\ routes["alarms"] \in activeViews
            /\ alarmsData.active = << >> /\ alarmsData.cleared = << >>
    THEN /\ initAlarms(stream)
         /\ tryInitTimers' = timers
    ELSE /\ tryInitTimers' = timers
         /\ AlarmsUntouched

\* setupAlarmsInitialization(): a first tryInit, then the observer of the
\* class attribute of #view-alarms.
SetupAlarmsInitialization(stream) ==
    /\ ~alarmsSetup
    /\ observerPending = 0
    /\ alarmsSetup' = TRUE
    /\ tryInit(stream, tryInitTimers)
    /\ UNCHANGED << now, currentFilters, reader, charts, connVars,
                    overviewVars, routerVars, console, aggVars, callVars, sshVars >>

\* A setTimeout(tryInit, 100) fires.
TryInitTimerFires(stream) ==
    /\ tryInitTimers > 0
    /\ observerPending = 0
    /\ listeners < MaxListeners
    /\ tryInit(stream, tryInitTimers - 1)
    /\ UNCHANGED << now, currentFilters, reader, alarmsSetup, charts, connVars,
                    overviewVars, routerVars, console, aggVars, callVars, sshVars >>

\* The observer callback on one mutation record: tryInit when the alarms
\* view carries 'active'.
ObserverCallback(stream) ==
    /\ observerPending > 0
    /\ listeners < MaxListeners
    /\ observerPending' = observerPending - 1
    /\ IF routes["alarms"] \in activeViews
       THEN tryInit(stream, tryInitTimers)
       ELSE /\ AlarmsUntouched
            /\ UNCHANGED tryInitTimers
    /\ UNCHANGED << now, currentFilters, reader, alarmsSetup, charts, connVars,
                    hash, pendingHashChange, activeViews, activeNavItems, domContentLoaded,
                    redirected, overviewVars, console, aggVars, callVars, sshVars >>

\* An Apply handler whose applyFilters filters the canonical lists in
\* place: alarmsData.active = alarmsData.active.filter(...).
ApplyClickInPlace(severity, timeRange, module) ==
    /\ listeners > 0
    /\ currentFilters' = [severity |-> severity, timeRange |-> timeRange, module |-> module]
    /\ filteredAlarmsData' = applyFilters(alarmsData, currentFilters', now)
    /\ alarmsData' = filteredAlarmsData'
    /\ rendered' = renderAlarms(filteredAlarmsData')
    /\ filteredAt' = << now >>
    /\ csv' = << >>
    /\ notification' = ""
    /\ UNCHANGED << now, listeners, generatedAt, drawn,
                    overviewVars, routerVars, console, aggVars, sideVars >>

\* Click on Apply with the three selects showing severity, timeRange and
\* module.
ApplyClick(severity, timeRange, module) ==
    /\ listeners > 0
    /\ currentFilters' = [severity |-> severity, timeRange |-> timeRange, module |-> module]
    /\ filteredAlarmsData' = applyFilters(alarmsData, currentFilters', now)
    /\ rendered' = renderAlarms(filteredAlarmsData')
    /\ filteredAt' = << now >>
    /\ csv' = << >>
    /\ notification' = ""
    /\ UNCHANGED << now, alarmsData, listeners, generatedAt, drawn,
                    overviewVars, routerVars, console, aggVars, sideVars >>

\* Click on Clear: the selects and currentFilters go back to the defaults.
ClearClick ==
    /\ listeners > 0
    /\ currentFilters' = [severity |-> "ALL", timeRange |-> "24h", module |-> << "ALL" >>]
    /\ filteredAlarmsData' = applyFilters(alarmsData, currentFilters', now)
    /\ rendered' = renderAlarms(filteredAlarmsData')
    /\ filteredAt' = << now >>
    /\ csv' = << >>
    /\ notification' = ""
    /\ UNCHANGED << now, alarmsData, listeners, generatedAt, drawn,
                    overviewVars, routerVars, console, aggVars, sideVars >>

\* An exportToCSV without the early return on an empty allAlarms: the
\* header-only text is handed to the browser.
ExportClickAlways ==
    /\ listeners > 0
    /\ csv' = << CsvDocument(filteredAlarmsData, now) >>
    /\ notification' = "CSV exported successfully!"
    /\ UNCHANGED << now, alarmsData, filteredAlarmsData, currentFilters, listeners,
                    rendered, generatedAt, drawn, filteredAt,
                    overviewVars, routerVars, console, aggVars, sideVars >>

\* Click on Export: exportToCSV().
ExportClick ==
    /\ listeners > 0
    /\ IF Len(filteredAlarmsData.active) + Len(filteredAlarmsData.cleared) = 0
       THEN /\ notification' = "No alarms to export with current filters"
            /\ csv' = << >>
       ELSE /\ csv' = << CsvDocument(filteredAlarmsData, now) >>
            /\ notification' = "CSV exported successfully!"
    /\ UNCHANGED << now, alarmsData, filteredAlarmsData, currentFilters, listeners,
                    rendered, generatedAt, drawn, filteredAt,
                    overviewVars, routerVars, console, aggVars, sideVars >>

\* An hour passes.
Tick ==
    /\ now < Now0 + MaxTicks * HOUR_MS
    /\ now' = now + HOUR_MS
    /\ csv' = << >>
    /\ notification' = ""
    /\ UNCHANGED << alarmsData, filteredAlarmsData, currentFilters, listeners,
                    rendered, generatedAt, drawn, filteredAt,
                    overviewVars, routerVars, console, aggVars, sideVars >>

\* ------------------------------------------------------------------------
\* Trends: operations
\* ------------------------------------------------------------------------

\* statuses[type] || 'OK' on an indicator map.
StatusOrOK(statuses, type) ==
    IF \E k \in 1..Len(statuses) : statuses[k].type = type
    THEN statuses[CHOOSE k \in 1..Len(statuses) : statuses[k].type = type].status
    ELSE "OK"

\* The status generateTimeSeriesData works out for a chart.
MetricStatus(statuses, dataType) ==
    CASE dataType = "voltage" -> StatusOrOK(statuses, "Voltage Level")
      [] dataType = "current" -> StatusOrOK(statuses, "Current Level")
      [] dataType = "temperature" -> StatusOrOK(statuses, "Thermal Status")
      [] dataType = "powerFactor" ->
            LET voltageStatus == StatusOrOK(statuses, "Voltage Level")
                currentStatus == StatusOrOK(statuses, "Current Level")
                priorities == [ OK |-> 0, DEGRADED |-> 1, WARNING |-> 2, CRITICAL |-> 3 ]
            IN  IF priorities[voltageStatus] > priorities[currentStatus]
                THEN voltageStatus ELSE currentStatus

\* statusColors of generateTimeSeriesData.
statusColors ==
    [ OK |-> "#2d5f4d", DEGRADED |-> "#d4a850", WARNING |-> "#e67e50", CRITICAL |-> "#c84848" ]

\* getDefaultModule(): the first module with a non-OK indicator, or M001.
getDefaultModule(snapshot) ==
    LET withIssue == { i \in 1..ALARM_MODULE_COUNT :
                         /\ ModuleId(i) \in DOMAIN snapshot
                         /\ \E k \in 1..Len(snapshot[ModuleId(i)]) :
                               snapshot[ModuleId(i)][k].status # "OK" }
    IN  IF withIssue = {} THEN ModuleId(1)
        ELSE ModuleId(CHOOSE i \in withIssue : \A j \in withIssue : i <= j)

\* The four charts after generateTimeSeriesData for the module and the
\* time range: the border color of each data set.
ChartsOf(snapshot, moduleId, range) ==
    LET statuses == IF moduleId \in DOMAIN snapshot THEN snapshot[moduleId] ELSE << >>
    IN  [ module |-> moduleId,
          range  |-> range,
          colors |-> [ dataType \in { "voltage", "current", "temperature", "powerFactor" } |->
                         statusColors[MetricStatus(statuses, dataType)] ] ]

\* initTrends(), run the first time the trends view is shown.
InitTrends ==
    /\ routes["trends"] \in activeViews
    /\ charts = << >>
    /\ charts' = << ChartsOf(moduleData, getDefaultModule(moduleData), "1h") >>
    /\ UNCHANGED << reader, alarmsSetup, tryInitTimers, connVars,
                    overviewVars, routerVars, console, aggVars, callVars, sshVars, alarmVars >>

\* The module selector changes to moduleId: updateCharts().
ModuleSelectorChange(moduleId) ==
    /\ routes["trends"] \in activeViews
    /\ charts # << >>
    /\ charts' = << ChartsOf(moduleData, moduleId, charts[1].range) >>
    /\ UNCHANGED << reader, alarmsSetup, tryInitTimers, connVars,
                    overviewVars, routerVars, console, aggVars, callVars, sshVars, alarmVars >>

\* Click on a time range button: updateCharts().
TimeRangeClick(range) ==
    /\ routes["trends"] \in activeViews
    /\ charts # << >>
    /\ charts' = << ChartsOf(moduleData, charts[1].module, range) >>
    /\ UNCHANGED << reader, alarmsSetup, tryInitTimers, connVars,
                    overviewVars, routerVars, console, aggVars, callVars, sshVars, alarmVars >>

\* ------------------------------------------------------------------------
\* Connection manager
\* ------------------------------------------------------------------------

MIN_PASSWORD_LENGTH == 4

\* The value of a decimal digit character, -1 for any other character.
DigitValue(c) ==
    CASE c = "0" -> 0 [] c = "1" -> 1 [] c = "2" -> 2 [] c = "3" -> 3 [] c = "4" -> 4
      [] c = "5" -> 5 [] c = "6" -> 6 [] c = "7" -> 7 [] c = "8" -> 8 [] c = "9" -> 9
      [] OTHER -> 0 - 1

\* The length of the longest prefix of str made of digits.
RECURSIVE LeadingDigits(_)
LeadingDigits(str) ==
    IF str = << >> \/ DigitValue(Head(str)) < 0 THEN 0 ELSE 1 + LeadingDigits(Tail(str))

\* The number the first n characters of str (digits) spell.
RECURSIVE DigitsValue(_, _)
DigitsValue(str, n) ==
    IF n = 0 THEN 0 ELSE 10 * DigitsValue(str, n - 1) + DigitValue(str[n])

\* parseInt(str) on a string without leading blanks or radix prefix:
\* << >> for NaN, else << the number of the optional sign and the leading
\* digits >>.
parseInt(str) ==
    LET signed == str # << >> /\ Head(str) \in { "-", "+" }
        body   == IF signed THEN Tail(str) ELSE str
        n      == LeadingDigits(body)
    IN  IF n = 0 THEN << >>
        ELSE IF signed /\ Head(str) = "-" THEN << 0 - DigitsValue(body, n) >>
        ELSE << DigitsValue(body, n) >>

\* ip.split('.').
RECURSIVE SplitDots(_, _)
SplitDots(str, part) ==
    IF str = << >> THEN << part >>
    ELSE IF Head(str) = "." THEN << part >> \o SplitDots(Tail(str), << >>)
    ELSE SplitDots(Tail(str), Append(part, Head(str)))

\* /^(\d{1,3}\.){3}\d{1,3}$/.test(ip)
ipRegexTest(ip) ==
    LET parts == SplitDots(ip, << >>)
    IN  /\ Len(parts) = 4
        /\ \A k \in 1..4 : Len(parts[k]) \in 1..3 /\ LeadingDigits(parts[k]) = Len(parts[k])

\* validateConnectionInputs(ip, port, password).
validateConnectionInputs(ip, port, password) ==
    IF ~ipRegexTest(ip) THEN FALSE
    ELSE IF \E k \in 1..4 :
               LET octet == parseInt(SplitDots(ip, << >>)[k])[1]
               IN  octet < 0 \/ octet > 255
    THEN FALSE
    ELSE IF parseInt(port) = << >> THEN FALSE
    ELSE IF parseInt(port)[1] < 1 \/ parseInt(port)[1] > 65535 THEN FALSE
    ELSE IF password = << >> \/ Len(password) < MIN_PASSWORD_LENGTH THEN FALSE
    ELSE TRUE

\* A simulated connection that looks at the password field when its timer
\* fires, not at the password it was called with.
ConnectionResolvesByField(attempt) ==
    Len(connectionInputs.password) >= MIN_PASSWORD_LENGTH

\* The timer callback of simulateConnection(ip, port, password): resolve
\* when the password it was called with is long enough, else reject.
ConnectionResolves(attempt) ==
    Len(attempt.password) >= MIN_PASSWORD_LENGTH

\* updateLastConnectedTime() for a connectionState.lastConnected.
LastConnectedText(lastConnected) ==
    IF lastConnected # << >> THEN [ label |-> "Last connected: ", at |-> lastConnected ]
    ELSE [ label |-> "Never connected", at |-> << >> ]

\* setConnectionState(state) on the elements as they are; lastConnected is
\* connectionState.lastConnected at the time.
setConnectionState(ui, state, lastConnected) ==
    CASE state = "connecting" ->
            [ ui EXCEPT !.btnClass = { "connecting" },
                        !.btnLabel = "Connecting...",
                        !.btnDisabled = TRUE,
                        !.badge = "status-connecting",
                        !.statusText = "Connecting..." ]
      [] state = "connected" ->
            [ ui EXCEPT !.btnClass = { "connected" },
                        !.btnLabel = "Connected",
                        !.btnDisabled = TRUE,
                        !.btnDisplay = "none",
                        !.disconnectDisplay = "inline-block",
                        !.badge = "status-connected",
                        !.statusText = "Connected",
                        !.lastConnectedText = LastConnectedText(lastConnected) ]
      [] state = "error" ->
            [ ui EXCEPT !.btnClass = { "error" },
                        !.btnLabel = "Connection Failed - Retry",
                        !.btnDisabled = FALSE,
                        !.badge = "status-error",
                        !.statusText = "Connection Failed" ]
      [] OTHER ->
            [ ui EXCEPT !.btnClass = { },
                        !.btnLabel = "Connect",
                        !.btnDisabled = FALSE,
                        !.btnDisplay = "inline-block",
                        !.disconnectDisplay = "none",
                        !.badge = "status-disconnected",
                        !.statusText = "Disconnected",
                        !.lastConnectedText = LastConnectedText(lastConnected) ]

\* Characters of the strings typed into the form.
Chars(ip) ==
    CASE ip = "192.168.1.100" ->
            << "1", "9", "2", ".", "1", "6", "8", ".", "1", ".", "1", "0", "0" >>
      [] ip = "10.0.0.7" -> << "1", "0", ".", "0", ".", "0", ".", "7" >>
      [] ip = "999.1.1.1" -> << "9", "9", "9", ".", "1", ".", "1", ".", "1" >>
      [] ip = "502" -> << "5", "0", "2" >>
      [] ip = "80x" -> << "8", "0", "x" >>
      [] ip = "0" -> << "0" >>
      [] ip = "abcd" -> << "a", "b", "c", "d" >>
      [] ip = "abc" -> << "a", "b", "c" >>

\* What the user types: two addresses that pass, one with an octet out of
\* range; two ports that pass, one out of range; a password long enough
\* and one too short.
IpChoices == { Chars("192.168.1.100"), Chars("10.0.0.7"), Chars("999.1.1.1") }

PortChoices == { Chars("502"), Chars("80x"), Chars("0") }

PasswordChoices == { Chars("abcd"), Chars("abc") }

\* The form and connectionState after the script has run: the markup is
\* the one setConnectionState('disconnected') leaves, the password empty.
ConnectionIdle ==
    /\ connectionState = [ isConnected |-> FALSE, ipAddress |-> Chars("192.168.1.100"),
                           port |-> Chars("502"), lastConnected |-> << >>,
                           connectionAttempts |-> 0 ]
    /\ connectionInputs = [ ip |-> Chars("192.168.1.100"), port |-> Chars("502"),
                            password |-> << >> ]
    /\ connectionUi = [ btnClass |-> { }, btnLabel |-> "Connect", btnDisabled |-> FALSE,
                        btnDisplay |-> "inline-block", disconnectDisplay |-> "none",
                        badge |-> "status-disconnected", statusText |-> "Disconnected",
                        lastConnectedText |-> LastConnectedText(<< >>) ]
    /\ pendingConnections = << >>
    /\ errorTimers = 0
    /\ validatedAtClick = << >>

\* The user edits the three fields.
EditInputs(ip, port, password) ==
    /\ connectionInputs' = [ ip |-> ip, port |-> port, password |-> password ]
    /\ UNCHANGED << connectionState, connectionUi, pendingConnections, errorTimers,
                    validatedAtClick, reader, alarmsSetup, tryInitTimers, charts,
                    overviewVars, routerVars, console, aggVars, callVars, sshVars, alarmVars >>

\* handleConnect(): click on the connect button, which a disabled button
\* does not deliver.
HandleConnect ==
    /\ ~connectionUi.btnDisabled
    /\ Len(pendingConnections) < MaxConnecting
    /\ IF ~validateConnectionInputs(connectionInputs.ip, connectionInputs.port,
                                    connectionInputs.password)
       THEN /\ console' = << "error" >>
            /\ UNCHANGED << connectionUi, pendingConnections >>
       ELSE /\ connectionUi' = setConnectionState(connectionUi, "connecting",
                                                  connectionState.lastConnected)
            /\ pendingConnections' = Append(pendingConnections, connectionInputs)
            /\ UNCHANGED console
    /\ UNCHANGED << connectionState, connectionInputs, errorTimers, validatedAtClick,
                    reader, alarmsSetup, tryInitTimers, charts,
                    overviewVars, routerVars, aggVars, callVars, sshVars, alarmVars >>

\* A handleDisconnect that only redraws the form.
HandleDisconnectRedrawOnly ==
    /\ connectionUi' = setConnectionState(connectionUi, "disconnected", << >>)
    /\ UNCHANGED << connectionState, connectionInputs, pendingConnections, errorTimers,
                    validatedAtClick, reader, alarmsSetup, tryInitTimers, charts,
                    overviewVars, routerVars, console, aggVars, callVars, sshVars, alarmVars >>

\* handleDisconnect(): click on the disconnect button.
HandleDisconnect ==
    /\ connectionState' = [ connectionState EXCEPT !.isConnected = FALSE,
                                                   !.lastConnected = << >> ]
    /\ connectionUi' = setConnectionState(connectionUi, "disconnected", << >>)
    /\ UNCHANGED << connectionInputs, pendingConnections, errorTimers,
                    validatedAtClick, reader, alarmsSetup, tryInitTimers, charts,
                    overviewVars, routerVars, console, aggVars, callVars, sshVars, alarmVars >>

\* The timers of the connection manager that can fire: the oldest
\* simulateConnection timer (2 s) and the auto-revert timers (3 s).
ConnectionTimers ==
    (IF pendingConnections # << >> THEN { "connection" } ELSE { })
        \cup (IF errorTimers > 0 THEN { "revert" } ELSE { })

\* The 2-second timer of the oldest attempt fires; the promise settles and
\* its then or catch handler runs.
ConnectionSettles ==
    LET attempt == Head(pendingConnections)
    IN  /\ pendingConnections' = Tail(pendingConnections)
        /\ IF ConnectionResolves(attempt)
           THEN /\ connectionState' =
                      [ connectionState EXCEPT !.isConnected = TRUE,
                                               !.ipAddress = connectionInputs.ip,
                                               !.port = connectionInputs.port,
                                               !.lastConnected = << now >> ]
                /\ connectionUi' = setConnectionState(connectionUi, "connected",
                                                      connectionState'.lastConnected)
                /\ console' = << "log" >>
                /\ validatedAtClick' = << [ ip |-> attempt.ip, port |-> attempt.port ] >>
                /\ UNCHANGED errorTimers
           ELSE /\ connectionState' =
                      [ connectionState EXCEPT
                          !.connectionAttempts = connectionState.connectionAttempts + 1 ]
                /\ connectionUi' = setConnectionState(connectionUi, "error",
                                                      connectionState.lastConnected)
                /\ console' = << "error" >>
                /\ errorTimers' = errorTimers + 1
                /\ UNCHANGED validatedAtClick

\* The 3-second timer of the catch handler fires.
ErrorReverts ==
    /\ errorTimers' = errorTimers - 1
    /\ connectionUi' = setConnectionState(connectionUi, "disconnected",
                                          connectionState.lastConnected)
    /\ UNCHANGED << connectionState, pendingConnections, console, validatedAtClick >>

\* A timer of the connection manager fires.
ConnectionTimerFires ==
    /\ \E timer \in ConnectionTimers :
          IF timer = "connection" THEN ConnectionSettles ELSE ErrorReverts
    /\ UNCHANGED << connectionInputs, reader, alarmsSetup, tryInitTimers, charts,
                    overviewVars, routerVars, aggVars, callVars, sshVars, alarmVars >>

ConnectionNext ==
    \/ \E ip \in IpChoices, port \in PortChoices, password \in PasswordChoices :
          EditInputs(ip, port, password)
    \/ HandleConnect
    \/ HandleDisconnect
    \/ ConnectionTimerFires

\* ------------------------------------------------------------------------
\* SSH client
\* ------------------------------------------------------------------------

\* No SSHClient has been constructed.
SshIdle ==
    /\ sshClient = << >>
    /\ sshLibrary = [ sessions |-> 0, freed |-> 0, sockets |-> 0, closed |-> 0 ]
    /\ sshHistory = [ phase |-> "none", calls |-> 0 ]
    /\ sshReturned = << >>

\* How a connect() can go: which step fails, or none.
ConnectOutcomes == { "no session", "no route", "no handshake", "no auth", "ok" }

\* SSHClient(host, port, username, password). The constructor is declared
\* and not defined in the sources: connected_ and sock_ start with
\* whatever it gives them, the two session pointers null.
SshConstruct(connected, sock) ==
    /\ sshClient = << >>
    /\ sshClient' = << [ sshSession_ |-> 0, sftpSession_ |-> 0, sock_ |-> sock,
                         connected_ |-> connected ] >>
    /\ sshHistory' = [ sshHistory EXCEPT !.phase = "constructed" ]
    /\ UNCHANGED << sshLibrary, sshReturned, overviewVars, routerVars, console, aggVars,
                    callVars, pageVars, alarmVars >>

\* connect(): a new session into sshSession_, a socket in a local
\* variable, handshake, password; true when all four went through. It
\* gives up at the first step that fails, leaving what it has opened.
SshConnect(outcome) ==
    /\ sshClient # << >>
    /\ sshHistory.calls < MaxSshCalls
    /\ LET session == IF outcome = "no session" THEN 0 ELSE sshLibrary.sessions + 1
       IN  /\ sshClient' = << [ sshClient[1] EXCEPT !.sshSession_ = session ] >>
           /\ sshLibrary' = [ sshLibrary EXCEPT
                                !.sessions = IF session = 0 THEN @ ELSE @ + 1,
                                !.sockets = IF session = 0 THEN @ ELSE @ + 1 ]
    /\ sshHistory' = [ phase |-> IF outcome = "ok" THEN "connected" ELSE "failed",
                       calls |-> sshHistory.calls + 1 ]
    /\ UNCHANGED << sshReturned, overviewVars, routerVars, console, aggVars,
                    callVars, pageVars, alarmVars >>

\* disconnect(): both sessions shut down and nulled, sock_ closed when it
\* is not negative, connected_ = false.
SshDisconnect ==
    /\ sshClient # << >>
    /\ sshHistory.calls < MaxSshCalls
    /\ sshClient' = << [ sshSession_ |-> 0, sftpSession_ |-> 0, sock_ |-> 0 - 1,
                         connected_ |-> FALSE ] >>
    /\ sshLibrary' = [ sshLibrary EXCEPT
                         !.freed = IF sshClient[1].sshSession_ # 0 THEN @ + 1 ELSE @,
                         !.closed = IF sshClient[1].sock_ >= 0 THEN @ + 1 ELSE @ ]
    /\ sshHistory' = [ phase |-> "disconnected", calls |-> sshHistory.calls + 1 ]
    /\ UNCHANGED << sshReturned, overviewVars, routerVars, console, aggVars,
                    callVars, pageVars, alarmVars >>

\* isConnected(): connected_.
SshIsConnected ==
    /\ sshClient # << >>
    /\ sshReturned' = << [ value |-> sshClient[1].connected_, phase |-> sshHistory.phase ] >>
    /\ UNCHANGED << sshClient, sshLibrary, sshHistory, overviewVars, routerVars, console,
                    aggVars, callVars, pageVars, alarmVars >>

SshNext ==
    \/ \E connected \in BOOLEAN, sock \in { 0 - 1, 0 } : SshConstruct(connected, sock)
    \/ \E outcome \in ConnectOutcomes : SshConnect(outcome)
    \/ SshDisconnect
    \/ SshIsConnected

\* ------------------------------------------------------------------------
\* The page
\* ------------------------------------------------------------------------

\* The overview and the router after the scripts have run and before
\* DOMContentLoaded: initRouter has handled the initial (empty) hash and
\* shown the default view.
PageInit ==
    /\ moduleData = << >>
    /\ tiles = << >>
    /\ selectedModuleId = << >>
    /\ detailPanel = << >>
    /\ validateTimer = FALSE
    /\ inconsistencies = << >>
    /\ validations = FALSE
    /\ hash = << >>
    /\ pendingHashChange = 0
    /\ activeViews = { routes["config"] }
    /\ activeNavItems = { defaultRoute }
    /\ observerPending = 0
    /\ domContentLoaded = FALSE
    /\ redirected = FALSE
    /\ console = << >>

\* The page with window.STATCOM.getModuleData() returning snapshot, the
\* alarms view shown, and the overview otherwise untouched.
SnapshotPage(snapshot) ==
    /\ moduleData = snapshot
    /\ tiles = << >>
    /\ selectedModuleId = << >>
    /\ detailPanel = << >>
    /\ validateTimer = FALSE
    /\ inconsistencies = << >>
    /\ validations = FALSE
    /\ hash = << "#", "/", "alarms" >>
    /\ pendingHashChange = 0
    /\ activeViews = { routes["alarms"] }
    /\ activeNavItems = { << "/", "alarms" >> }
    /\ observerPending = 0
    /\ domContentLoaded = TRUE
    /\ redirected = FALSE
    /\ console = << >>

\* Nobody holds the filtered view, and the alarms and trends scripts have
\* not set themselves up.
PageIdle ==
    /\ reader = << >>
    /\ alarmsSetup = FALSE
    /\ tryInitTimers = 0
    /\ charts = << >>
    /\ ConnectionIdle
    /\ SshIdle

\* The aggregator harness, not in use.
AggIdle ==
    /\ aggInput = << >>
    /\ aggOutput = << >>
    /\ call = << >>
    /\ callResult = << >>
    /\ PageIdle

\* The alarms page after its script has run: nothing generated.
AlarmsIdle ==
    /\ now = Now0
    /\ alarmsData = [active |-> << >>, cleared |-> << >>]
    /\ filteredAlarmsData = [active |-> << >>, cleared |-> << >>]
    /\ currentFilters = [severity |-> "ALL", timeRange |-> "24h", module |-> << "ALL" >>]
    /\ listeners = 0
    /\ rendered = [activeCount |-> 0, clearedCount |-> 0, clearedShown |-> 0]
    /\ csv = << >>
    /\ notification = ""
    /\ generatedAt = << >>
    /\ drawn = << >>
    /\ filteredAt = << >>

Init ==
    /\ PageInit
    /\ AggIdle
    /\ AlarmsIdle

Next ==
    \/ InitModuleOverview
    \/ ValidateTimerFires
    \/ ValidateModules
    \/ \E i \in 1..TOTAL_MODULES : HandleModuleClick(ModuleId(i))
    \/ \E h \in Hashes : UserNavigates(h)
    \/ HandleRouteChange

Spec == Init /\ [][Next]_vars

\* ------------------------------------------------------------------------
\* The whole page: overview, router, alarms and trends together
\* ------------------------------------------------------------------------

\* A tile the user clicks and a module the user picks in the trends
\* selector: a CRITICAL module.
PageModules == { ModuleId(7) }

\* Where the user goes.
PageHashes == { << "#", "/", "alarms" >>, << "#", "/", "trends" >>, << "#", "/", "bogus" >> }

\* The draws of a generation.
PageStreams == { [seed |-> 3, stride |-> 7] }

WholeNext ==
    \/ InitModuleOverview
    \/ ValidateTimerFires
    \/ \E id \in PageModules : HandleModuleClick(id)
    \/ /\ tryInitTimers + 2 <= MaxTimers
       /\ \E h \in PageHashes : UserNavigates(h)
    \/ HandleRouteChange
    \/ RouterDOMContentLoaded
    \/ \E stream \in PageStreams : SetupAlarmsInitialization(stream)
    \/ \E stream \in PageStreams : TryInitTimerFires(stream)
    \/ \E stream \in PageStreams : ObserverCallback(stream)
    \/ ApplyClick("CRITICAL", "1h", << "ALL" >>)
    \/ ClearClick
    \/ ExportClick
    \/ InitTrends
    \/ \E id \in PageModules : ModuleSelectorChange(id)
    \/ TimeRangeClick("24h")

SpecWhole == Init /\ [][WholeNext]_vars

\* ------------------------------------------------------------------------
\* The start of the alarms page
\* ------------------------------------------------------------------------

\* Where the user goes while the alarms page sets itself up.
TryInitHashes == { << "#", "/", "alarms" >>, << "#", "/", "trends" >> }

\* The scripts' start in any order, the navigation, the timers and the
\* observer callbacks, with any draws for the generation.
TryInitNext ==
    \/ InitModuleOverview
    \/ /\ tryInitTimers + 2 <= MaxTimers
       /\ \E h \in TryInitHashes : UserNavigates(h)
    \/ HandleRouteChange
    \/ RouterDOMContentLoaded
    \/ \E stream \in Streams : SetupAlarmsInitialization(stream)
    \/ \E stream \in Streams : TryInitTimerFires(stream)
    \/ \E stream \in Streams : ObserverCallback(stream)

SpecTryInit == Init /\ [][TryInitNext]_vars

\* C29: with the built-in module snapshot, over any navigation to and
\* away from the alarms view and any interleaving of tryInit timers with
\* observer callbacks, initAlarms runs at most once: the handlers are
\* registered once and the canonical alarm set, once generated, stays.
InitAlarmsRunsOnce ==
    /\ [](listeners <= 1)
    /\ [][generatedAt # << >> =>
            /\ alarmsData' = alarmsData
            /\ generatedAt' = generatedAt
            /\ listeners' = listeners]_vars

\* initAlarms has run, and afterwards the user has come back to the alarms
\* view while a tryInit timer was still pending.
InitAlarmsRunsOnceWitness ==
    /\ listeners = 1
    /\ generatedAt # << >>
    /\ tryInitTimers > 0
    /\ observerPending > 0
    /\ routes["alarms"] \in activeViews

\* The SSH client next to the page.
SpecSsh == Init /\ [][SshNext]_vars

\* C30: after connect() has returned true and until disconnect() is
\* called, isConnected() returns true; after disconnect() it returns
\* false.
IsConnectedFollowsConnect ==
    sshReturned # << >> =>
        /\ sshReturned[1].phase = "connected" => sshReturned[1].value
        /\ sshReturned[1].phase = "disconnected" => ~sshReturned[1].value

\* The connection form on the page.
SpecConnection == Init /\ [][ConnectionNext]_vars

\* C26: every attempt that passes validateConnectionInputs succeeds, so
\* the 'error' state of the form and its 3-second auto-revert timer are
\* never reached and connectionAttempts stays 0.
ErrorStateUnreachable ==
    /\ connectionUi.statusText # "Connection Failed"
    /\ "error" \notin connectionUi.btnClass
    /\ connectionUi.badge # "status-error"
    /\ errorTimers = 0
    /\ connectionState.connectionAttempts = 0
    /\ \A k \in 1..Len(pendingConnections) : Len(pendingConnections[k].password) >= 4

\* An attempt has succeeded although the password field was emptied of a
\* character while it was pending.
ErrorStateUnreachableWitness ==
    /\ connectionState.isConnected
    /\ validatedAtClick # << >>
    /\ Len(connectionInputs.password) < 4

\* C27: whenever connectionState.isConnected is true, the stored ipAddress
\* and port are the values that were validated when Connect was clicked.
StoredAddressWasValidated ==
    connectionState.isConnected =>
        /\ connectionState.ipAddress = validatedAtClick[1].ip
        /\ connectionState.port = validatedAtClick[1].port

\* C28: the status shown is 'Connected' if and only if
\* connectionState.isConnected is true.
ConnectedShownIffConnected ==
    connectionUi.statusText = "Connected" <=> connectionState.isConnected

\* Connected while a later attempt is still pending, the form having been
\* through Disconnect and Connect in between.
ConnectedShownIffConnectedWitness ==
    /\ connectionState.isConnected
    /\ connectionUi.statusText = "Connected"
    /\ pendingConnections # << >>

\* The snapshot is the one of the 64 modules, each with the 12 indicator
\* keys of STATUS_TYPES and no other, each holding one of the four levels.
ModuleSnapshotShape ==
    /\ DOMAIN moduleData = { ModuleId(i) : i \in 1..64 }
    /\ \A id \in DOMAIN moduleData :
          /\ Len(moduleData[id]) = 12
          /\ { moduleData[id][k].type : k \in 1..12 } =
                { STATUS_TYPES[k] : k \in 1..Len(STATUS_TYPES) }
          /\ \A k \in 1..12 :
                moduleData[id][k].status \in { "OK", "DEGRADED", "WARNING", "CRITICAL" }

\* C23: in every state after initModuleOverview the module snapshot holds,
\* for each of the 64 modules, exactly the 12 fixed indicator keys, each
\* mapped to OK, DEGRADED, WARNING or CRITICAL, and no operation of the
\* page (tile click, route change, filtering, alarm generation, export,
\* chart update) changes it.
ModuleSnapshotFixed ==
    /\ [](DOMAIN moduleData # {} => ModuleSnapshotShape)
    /\ [][DOMAIN moduleData # {} => moduleData' = moduleData]_vars

\* The snapshot is there and a tile has been clicked, the alarms generated
\* and filtered, and the charts updated for another module.
ModuleSnapshotFixedWitness ==
    /\ DOMAIN moduleData # {}
    /\ selectedModuleId # << >>
    /\ generatedAt # << >>
    /\ currentFilters.severity = "CRITICAL"
    /\ charts # << >> /\ charts[1].module \in PageModules /\ charts[1].range = "24h"

\* ------------------------------------------------------------------------
\* The router on its own
\* ------------------------------------------------------------------------

\* The hashes of the five routes, two spellings the router accepts too
\* (no slash; an empty route), and two that name no route.
RouterHashes ==
    { << "#", "/", "config" >>, << "#", "/", "module-overview" >>,
      << "#", "/", "diagnostics" >>, << "#", "/", "trends" >>, << "#", "/", "alarms" >>,
      << "#", "alarms" >>, << "#" >>,
      << "#", "/", "bogus" >>, << "#", "/", "config", "/" >> }

RouterNext ==
    \/ \E h \in RouterHashes : UserNavigates(h)
    \/ HandleRouteChange
    \/ RouterDOMContentLoaded

SpecRouter == Init /\ [][RouterNext]_vars

\* The view and the nav item that belong to the hash of a known route.
ViewOfHash ==
    [ h \in { << "#", "/", "config" >>, << "#", "/", "module-overview" >>,
              << "#", "/", "diagnostics" >>, << "#", "/", "trends" >>,
              << "#", "/", "alarms" >> } |->
        CASE h[3] = "config" -> "view-config"
          [] h[3] = "module-overview" -> "view-module-overview"
          [] h[3] = "diagnostics" -> "view-diagnostics"
          [] h[3] = "trends" -> "view-trends"
          [] h[3] = "alarms" -> "view-alarms" ]

\* A step that handles a hash change to a known route: an event leaves the
\* queue while the hash names the route.
HandlesKnownRoute ==
    /\ pendingHashChange' = pendingHashChange - 1
    /\ hash \in DOMAIN ViewOfHash

\* C24: at most one view has the active class, and once a change to a
\* known route has been handled the active view is exactly the one mapped
\* to that route and the only active nav item is the one whose data-route
\* equals that route.
OneViewAndItsNavItem ==
    /\ [](Cardinality(activeViews) <= 1)
    /\ [][HandlesKnownRoute =>
            /\ activeViews' = { ViewOfHash[hash] }
            /\ activeNavItems' = { << "/", hash[3] >> }]_vars

\* A change to a known route has been handled while another view was
\* shown, and nothing is queued.
OneViewAndItsNavItemWitness ==
    /\ pendingHashChange = 0
    /\ hash = << "#", "/", "trends" >>
    /\ activeViews = { "view-trends" }
    /\ domContentLoaded

\* The event loop runs the hashchange listener for every queued event.
SpecRouterFair == Init /\ [][RouterNext]_vars /\ WF_vars(HandleRouteChange)

\* The hashes of RouterHashes that name no route.
UnknownHashes == { << "#", "/", "bogus" >>, << "#", "/", "config", "/" >> }

\* C25: for any hash that names no known route the router redirects to the
\* default route /config and the config view eventually becomes the
\* active one (unless the user has navigated elsewhere in the meantime);
\* a redirect starts from a hash that names no route and lands on the hash
\* of /config, which does, so no redirect follows a redirect.
UnknownHashReachesConfig ==
    /\ \A u \in UnknownHashes :
          (hash = u) ~> \/ activeViews = { "view-config" }
                        \/ (hash # u /\ ~redirected)
    /\ [][(redirected' /\ hash' # hash) =>
            /\ hash \notin DOMAIN ViewOfHash
            /\ hash' = << "#", "/", "config" >>
            /\ hash' \in DOMAIN ViewOfHash]_vars

\* A redirect has been made and handled: the config view is shown in place
\* of the view shown before.
UnknownHashReachesConfigWitness ==
    /\ redirected
    /\ pendingHashChange = 0
    /\ activeViews = { "view-config" }
    /\ activeNavItems = { << "/", "config" >> }
    /\ domContentLoaded

\* ------------------------------------------------------------------------
\* The alarm generator and the alarms page on snapshots drawn from a
\* bounded set
\* ------------------------------------------------------------------------

\* The indicator map with all 12 keys whose values from position shift + 1
\* on are those of v, the others OK.
FullMap(v, shift) ==
    [ k \in 1..Len(STATUS_TYPES) |->
        [ type   |-> STATUS_TYPES[k],
          status |-> IF k - shift \in 1..Len(v) THEN v[k - shift] ELSE "OK" ] ]

\* The snapshot of modules M001 .. M00n: the odd modules hold v from their
\* first indicator on, the even ones w from their second.
SnapshotOf(n, v, w) ==
    [ id \in { ModuleId(j) : j \in 1..n } |->
        IF (CHOOSE j \in 1..n : ModuleId(j) = id) % 2 = 1
        THEN FullMap(v, 0) ELSE FullMap(w, 1) ]

\* Three CRITICAL and five WARNING indicators.
ScenarioFaults ==
    << "CRITICAL", "WARNING", "CRITICAL", "WARNING", "WARNING", "CRITICAL",
       "WARNING", "WARNING" >>

\* The snapshots the generator is run on.
GenSnapshots ==
    { SnapshotOf(MaxModules, v, << l >>) :
          v \in [ 1..MaxFaults -> Levels ] \cup { ScenarioFaults }, l \in Levels }

GenInit ==
    /\ \E snapshot \in GenSnapshots : SnapshotPage(snapshot)
    /\ AggIdle
    /\ AlarmsIdle

GenNext ==
    \/ \E stream \in Streams : InitAlarms(stream)
    \/ Tick

SpecGen == GenInit /\ [][GenNext]_vars

\* The snapshots the alarms page is exercised on: one module with the
\* scenario's faults, and one with a fault of each level.
FilterSnapshots ==
    { SnapshotOf(1, ScenarioFaults, << >>),
      SnapshotOf(1, << "DEGRADED", "OK", "CRITICAL", "WARNING" >>, << >>) }

AlarmsInit ==
    /\ \E snapshot \in FilterSnapshots : SnapshotPage(snapshot)
    /\ AggIdle
    /\ AlarmsIdle

AlarmsNext ==
    \/ \E stream \in Streams : InitAlarms(stream)
    \/ \E severity \in SeverityChoices, timeRange \in TimeRangeChoices,
          module \in ModuleChoices : ApplyClick(severity, timeRange, module)
    \/ ClearClick
    \/ ExportClick
    \/ Tick

SpecAlarms == AlarmsInit /\ [][AlarmsNext]_vars

\* ------------------------------------------------------------------------
\* The alarms page left open: the filters on canonical sets of chosen ages
\* ------------------------------------------------------------------------

\* The ages, in milliseconds, of the alarms when the page is looked at:
\* each threshold of the `hours` table, one millisecond less, one more,
\* and two hours.
Ages ==
    { h * HOUR_MS + e : h \in { 1, 6, 24, 168 }, e \in { -1, 0, 1 } } \cup { 2 * HOUR_MS }

\* What a generation one millisecond less than age ago has left: an active
\* CRITICAL alarm activated age ago, an active WARNING alarm activated an
\* hour earlier, and an extra alarm cleared age ago after three hours.
AgedAlarms(age) ==
    [ active  |-> << AlarmRecord(ModuleId(1), STATUS_TYPES[1], "CRITICAL",
                                 Now0 - age, << >>, << >>, FALSE),
                     AlarmRecord(ModuleId(1), STATUS_TYPES[2], "WARNING",
                                 Now0 - age - HOUR_MS, << >>, << >>, FALSE) >>,
      cleared |-> << AlarmRecord(ModuleId(9), "Comm Lost", "WARNING",
                                 Now0 - age - 3 * HOUR_MS, << Now0 - age >>,
                                 << formatDuration(3 * HOUR_MS) >>, TRUE) >> ]

\* The page at Now0, initAlarms having run one millisecond less than age
\* ago with the default filters.
AgedInit ==
    /\ SnapshotPage(SnapshotOf(1, << "CRITICAL", "WARNING" >>, << >>))
    /\ AggIdle
    /\ now = Now0
    /\ \E age \in Ages :
          /\ alarmsData = AgedAlarms(age)
          /\ filteredAlarmsData = AgedAlarms(age)
          /\ generatedAt = << Now0 - age + 1 >>
          /\ filteredAt = << Now0 - age + 1 >>
    /\ currentFilters = [severity |-> "ALL", timeRange |-> "24h", module |-> << "ALL" >>]
    /\ listeners = 1
    /\ rendered = renderAlarms(filteredAlarmsData)
    /\ csv = << >>
    /\ notification = ""
    /\ drawn = << >>

AgedNext ==
    \/ \E severity \in SeverityChoices, timeRange \in TimeRangeChoices,
          module \in ModuleChoices : ApplyClick(severity, timeRange, module)
    \/ ClearClick
    \/ ExportClick

SpecFilter == AgedInit /\ [][AgedNext]_vars

\* ------------------------------------------------------------------------
\* A holder of the filtered view
\* ------------------------------------------------------------------------

\* `let filteredAlarmsData = { active: [], cleared: [] }` binds one object
\* and nothing rebinds it: applyFilters assigns that object's two
\* properties (filteredAlarmsData.active = ..., filteredAlarmsData.cleared
\* = ...). Whoever holds the view holds that object, so what a holder sees
\* at any time is what the variable holds at that time.
ReaderSees == filteredAlarmsData

\* Some code takes the view (const view = filteredAlarmsData) and reads
\* it, as renderAlarms and exportToCSV do; what it read is kept.
ReaderTakesView ==
    /\ listeners > 0
    /\ reader = << >>
    /\ reader' = << ReaderSees >>
    /\ UNCHANGED << alarmsSetup, tryInitTimers, charts, connVars,
                    overviewVars, routerVars, console, aggVars, callVars, sshVars, alarmVars >>

ReaderNext ==
    \/ AgedNext
    \/ ReaderTakesView

SpecReader == AgedInit /\ [][ReaderNext]_vars

\* C21: a reader that took the filtered { active, cleared } view before an
\* Apply or a Clear sees in it, after the action, the active and cleared
\* contents it saw when it took it.
ReaderViewStaysValid ==
    reader # << >> => ReaderSees = reader[1]

\* ------------------------------------------------------------------------
\* Properties of the alarm generator
\* ------------------------------------------------------------------------

\* The claims' reading of an indicator map, independent of the code: the
\* rank of a label under OK < DEGRADED < WARNING < CRITICAL.
SeverityRank(l) ==
    CASE l = "OK" -> 0 [] l = "DEGRADED" -> 1 [] l = "WARNING" -> 2 [] l = "CRITICAL" -> 3

\* The maximum of a set of known labels, OK for the empty set.
MaxSeverity(ls) ==
    IF ls = {} THEN "OK"
    ELSE CHOOSE l \in ls : \A o \in ls : SeverityRank(o) <= SeverityRank(l)

\* The canonical records, active then cleared.
AllAlarms == alarmsData.active \o alarmsData.cleared

\* The positions of AllAlarms holding a snapshot-derived record of unit u.
DerivedOfUnit(u) ==
    { k \in 1..Len(AllAlarms) : ~AllAlarms[k].seeded /\ AllAlarms[k].moduleId = u }

\* The positions of AllAlarms holding a snapshot-derived record of
\* indicator t of unit u.
DerivedOfPair(u, t) ==
    { k \in DerivedOfUnit(u) : AllAlarms[k].type = t }

\* C5: after a generation, a unit of the snapshot has a snapshot-derived
\* alarm record exactly when its aggregate status is not OK, and then the
\* highest severity among those records is its aggregate status.
AlarmsAgreeWithAggregate ==
    generatedAt # << >> =>
        \A u \in DOMAIN moduleData :
            LET aggregate == getAggregateModuleStatus(moduleData[u]).value
                severities == { AllAlarms[k].severity : k \in DerivedOfUnit(u) }
            IN  /\ (DerivedOfUnit(u) # {}) <=> (aggregate # "OK")
                /\ DerivedOfUnit(u) # {} => MaxSeverity(severities) = aggregate

\* C5 witness: a generation has run on a snapshot with an all-OK unit and
\* a unit whose aggregate WARNING is the severity of one of its two
\* records, the other being DEGRADED and cleared.
AlarmsAgreeWithAggregateWitness ==
    /\ generatedAt # << >>
    /\ \E u \in DOMAIN moduleData :
          /\ getAggregateModuleStatus(moduleData[u]).value = "WARNING"
          /\ { AllAlarms[k].severity : k \in DerivedOfUnit(u) } = { "DEGRADED", "WARNING" }
          /\ \E k \in DerivedOfUnit(u) :
                AllAlarms[k].severity = "DEGRADED" /\ AllAlarms[k].clearedAt # << >>
    /\ \E u \in DOMAIN moduleData :
          /\ getAggregateModuleStatus(moduleData[u]).value = "OK"
          /\ DerivedOfUnit(u) = {}

\* C6: after a generation, each (unit, indicator) pair of the snapshot
\* whose status is not OK has exactly one snapshot-derived record, of that
\* status as severity, and a pair whose status is OK has none; no
\* snapshot-derived record is of a unit the snapshot lacks.
OneRecordPerNonOKPair ==
    generatedAt # << >> =>
        /\ \A u \in DOMAIN moduleData : \A i \in 1..Len(moduleData[u]) :
              LET e == moduleData[u][i]
              IN  IF e.status # "OK"
                  THEN /\ Cardinality(DerivedOfPair(u, e.type)) = 1
                       /\ \A k \in DerivedOfPair(u, e.type) : AllAlarms[k].severity = e.status
                  ELSE DerivedOfPair(u, e.type) = {}
        /\ \A k \in 1..Len(AllAlarms) :
              ~AllAlarms[k].seeded => AllAlarms[k].moduleId \in DOMAIN moduleData

\* C6 witness: a generation on a two-unit snapshot has put a DEGRADED
\* record of M001 in the active list and a CRITICAL record of M002 in the
\* cleared list, next to seeded records.
OneRecordPerNonOKPairWitness ==
    /\ generatedAt # << >>
    /\ \E k \in 1..Len(alarmsData.active) :
          /\ alarmsData.active[k].moduleId = ModuleId(1)
          /\ alarmsData.active[k].severity = "DEGRADED"
    /\ \E k \in 1..Len(alarmsData.cleared) :
          /\ alarmsData.cleared[k].moduleId = ModuleId(2)
          /\ alarmsData.cleared[k].severity = "CRITICAL"
          /\ ~alarmsData.cleared[k].seeded
    /\ \E k \in 1..Len(alarmsData.cleared) : alarmsData.cleared[k].seeded

\* The records of a list with a clearedAt are cleared no earlier than
\* they were activated.
ClearedNotBeforeActivated(list) ==
    \A k \in 1..Len(list) :
        list[k].clearedAt # << >> => list[k].clearedAt[1] >= list[k].activatedAt

\* C7: every alarm record with a clearedAt, snapshot-derived or seeded, in
\* the canonical or in the filtered lists, has clearedAt >= activatedAt, in
\* every state reached by generation, filtering, export and the clock.
ClearedAtNotBeforeActivatedAt ==
    /\ ClearedNotBeforeActivated(alarmsData.active)
    /\ ClearedNotBeforeActivated(alarmsData.cleared)
    /\ ClearedNotBeforeActivated(filteredAlarmsData.active)
    /\ ClearedNotBeforeActivated(filteredAlarmsData.cleared)

\* C7 witness: after an export of a filtered view, the canonical cleared
\* list holds a snapshot-derived and a seeded record, and one record
\* cleared at the very time it was activated.
ClearedAtNotBeforeActivatedAtWitness ==
    /\ csv # << >>
    /\ currentFilters.severity # "ALL"
    /\ filteredAlarmsData.cleared # << >>
    /\ \E k \in 1..Len(alarmsData.cleared) : alarmsData.cleared[k].seeded
    /\ \E k \in 1..Len(alarmsData.cleared) : ~alarmsData.cleared[k].seeded
    /\ \E k \in 1..Len(alarmsData.cleared) :
          alarmsData.cleared[k].clearedAt[1] = alarmsData.cleared[k].activatedAt

\* The number of the first draw candidate j of cands is made with.
RECURSIVE FirstDrawOf(_, _, _, _)
FirstDrawOf(cands, j, tnow, stream) ==
    IF j = 1 THEN 0
    ELSE FirstDrawOf(cands, j - 1, tnow, stream)
           + (IF DrawClears(Rand(stream, FirstDrawOf(cands, j - 1, tnow, stream) + 1))
              THEN 3 ELSE 2)

\* Candidate j of the generation was drawn to clear, at a time later than
\* the generation time.
DrawnToClearInFuture(cands, j) ==
    LET d == FirstDrawOf(cands, j, generatedAt[1], drawn[1])
        activatedAt == generatedAt[1] - Scale(Rand(drawn[1], d), 6 * HOUR_MS)
    IN  /\ DrawClears(Rand(drawn[1], d + 1))
        /\ activatedAt + Scale(Rand(drawn[1], d + 2), 4 * HOUR_MS) > generatedAt[1]

\* The active list holds a record of the candidate, with no clearedAt and
\* no duration, and the cleared list holds no snapshot-derived one.
EmittedActive(cand) ==
    /\ \E k \in 1..Len(alarmsData.active) :
          /\ alarmsData.active[k].moduleId = cand.moduleId
          /\ alarmsData.active[k].type = cand.type
          /\ alarmsData.active[k].clearedAt = << >>
          /\ alarmsData.active[k].duration = << >>
    /\ \A k \in 1..Len(alarmsData.cleared) :
          ~(/\ ~alarmsData.cleared[k].seeded
            /\ alarmsData.cleared[k].moduleId = cand.moduleId
            /\ alarmsData.cleared[k].type = cand.type)

\* C8: a candidate whose drawn clearing time is later than the generation
\* time is in the active list with no clearedAt and no duration; every
\* record of the cleared list has a clearedAt not later than the generation
\* time, and every record of the active list has no clearedAt.
FutureClearStaysActive ==
    generatedAt # << >> =>
        /\ LET cands == AlarmCandidates(moduleData, 1)
           IN  \A j \in 1..Len(cands) :
                   DrawnToClearInFuture(cands, j) => EmittedActive(cands[j])
        /\ \A k \in 1..Len(alarmsData.cleared) :
              /\ alarmsData.cleared[k].clearedAt # << >>
              /\ alarmsData.cleared[k].clearedAt[1] <= generatedAt[1]
        /\ \A k \in 1..Len(alarmsData.active) :
              /\ alarmsData.active[k].clearedAt = << >>
              /\ alarmsData.active[k].duration = << >>

\* C8 witness: a generation drew a clearing time in the future for one
\* candidate, and cleared another.
FutureClearStaysActiveWitness ==
    /\ generatedAt # << >>
    /\ LET cands == AlarmCandidates(moduleData, 1)
       IN  \E j \in 1..Len(cands) :
               DrawnToClearInFuture(cands, j) /\ EmittedActive(cands[j])
    /\ \E k \in 1..Len(alarmsData.cleared) : ~alarmsData.cleared[k].seeded

\* C20: after a generation, in the active list a record comes before every
\* record of lower severity and, among records of its severity, before
\* every record activated earlier; in the cleared list, snapshot-derived
\* and seeded records together, a record comes before every record cleared
\* earlier.
GeneratedListsAreSorted ==
    generatedAt # << >> =>
        /\ \A i, j \in 1..Len(alarmsData.active) :
              i < j =>
                LET a == alarmsData.active[i]
                    b == alarmsData.active[j]
                IN  \/ SeverityRank(a.severity) > SeverityRank(b.severity)
                    \/ /\ a.severity = b.severity
                       /\ a.activatedAt >= b.activatedAt
        /\ \A i, j \in 1..Len(alarmsData.cleared) :
              i < j => alarmsData.cleared[i].clearedAt[1] >= alarmsData.cleared[j].clearedAt[1]

\* C20 witness: a generation has returned an active list with records of
\* two severities and two records of one severity activated at different
\* times, and a cleared list with a snapshot-derived record, a seeded one
\* and three clearing times.
GeneratedListsAreSortedWitness ==
    /\ generatedAt # << >>
    /\ \E i, j \in 1..Len(alarmsData.active) :
          alarmsData.active[i].severity # alarmsData.active[j].severity
    /\ \E i, j \in 1..Len(alarmsData.active) :
          /\ alarmsData.active[i].severity = alarmsData.active[j].severity
          /\ alarmsData.active[i].activatedAt > alarmsData.active[j].activatedAt
    /\ \E i, j \in 1..Len(alarmsData.cleared) :
          ~alarmsData.cleared[i].seeded /\ alarmsData.cleared[j].seeded
    /\ Cardinality({ alarmsData.cleared[k].clearedAt[1] :
                        k \in 1..Len(alarmsData.cleared) }) >= 3

\* The extra records of the cleared list: those the second loop pushed.
ExtraPositions == { k \in 1..Len(alarmsData.cleared) : alarmsData.cleared[k].seeded }

\* An extra record was activated within the 7 days before the generation
\* and cleared no later than the generation.
ExtraTimesInRange ==
    \A k \in ExtraPositions :
        LET a == alarmsData.cleared[k]
        IN  /\ generatedAt[1] - 7 * 24 * HOUR_MS <= a.activatedAt
            /\ a.activatedAt <= generatedAt[1]
            /\ a.clearedAt[1] <= generatedAt[1]

RECURSIVE IsSubSequence(_, _)
IsSubSequence(a, b) ==
    IF a = << >> THEN TRUE
    ELSE IF b = << >> THEN FALSE
    ELSE IF Head(a) = Head(b) THEN IsSubSequence(Tail(a), Tail(b))
    ELSE IsSubSequence(a, Tail(b))

\* C9: whatever the canonical set and the criteria, the filtered active
\* list is a sub-sequence of the canonical active list and the filtered
\* cleared list one of the canonical cleared list.
FilteredIsSubSequence ==
    /\ IsSubSequence(filteredAlarmsData.active, alarmsData.active)
    /\ IsSubSequence(filteredAlarmsData.cleared, alarmsData.cleared)

\* C9 witness: after Apply both filtered lists hold at least two records
\* and fewer than the canonical lists.
FilteredIsSubSequenceWitness ==
    /\ currentFilters.severity # "ALL"
    /\ Len(filteredAlarmsData.active) >= 2
    /\ Len(filteredAlarmsData.active) < Len(alarmsData.active)
    /\ Len(filteredAlarmsData.cleared) >= 2
    /\ Len(filteredAlarmsData.cleared) < Len(alarmsData.cleared)
    /\ filteredAlarmsData.active[1] # filteredAlarmsData.active[2]
    /\ filteredAlarmsData.cleared[1] # filteredAlarmsData.cleared[Len(filteredAlarmsData.cleared)]

\* The three predicates of the criteria on a record whose time (activatedAt
\* of an active record, clearedAt of a cleared one) is t, for a filter
\* applied at time at.
SeverityMatches(alarm) ==
    currentFilters.severity = "ALL" \/ alarm.severity = currentFilters.severity

ModuleMatches(alarm) ==
    currentFilters.module = << "ALL" >> \/ alarm.moduleId = currentFilters.module

WithinTimeRange(t) ==
    LET cutoff == TimeCutoff(currentFilters, filteredAt[1])
    IN  cutoff = << >> \/ t >= cutoff[1]

\* The positions of a list whose record has a severity.
OfSeverity(list, severity) == { k \in 1..Len(list) : list[k].severity = severity }

\* C10: the filtered lists hold exactly the canonical records that satisfy
\* the severity, the module and the time-range predicate at once, as often
\* as the canonical lists hold them. Filtering by an exact severity leaves
\* only records of that severity, and severity CRITICAL on 3 CRITICAL and
\* 5 WARNING in-range active alarms leaves exactly the 3 CRITICAL ones.
FilteredIsConjunction ==
    filteredAt # << >> =>
        LET PassesActive(alarm) ==
                SeverityMatches(alarm) /\ ModuleMatches(alarm)
                    /\ WithinTimeRange(alarm.activatedAt)
            PassesCleared(alarm) ==
                SeverityMatches(alarm) /\ ModuleMatches(alarm)
                    /\ WithinTimeRange(alarm.clearedAt[1])
        IN  /\ filteredAlarmsData.active = SelectSeq(alarmsData.active, PassesActive)
            /\ filteredAlarmsData.cleared = SelectSeq(alarmsData.cleared, PassesCleared)
            /\ currentFilters.severity # "ALL" =>
                  \A k \in 1..Len(filteredAlarmsData.active) :
                      filteredAlarmsData.active[k].severity = currentFilters.severity
            /\ currentFilters.severity # "ALL" =>
                  \A k \in 1..Len(filteredAlarmsData.cleared) :
                      filteredAlarmsData.cleared[k].severity = currentFilters.severity
            /\ ( /\ currentFilters.severity = "CRITICAL"
                  /\ currentFilters.module = << "ALL" >>
                  /\ Len(alarmsData.active) = 8
                  /\ Cardinality(OfSeverity(alarmsData.active, "CRITICAL")) = 3
                  /\ Cardinality(OfSeverity(alarmsData.active, "WARNING")) = 5
                  /\ \A k \in 1..8 : WithinTimeRange(alarmsData.active[k].activatedAt) )
                => /\ Len(filteredAlarmsData.active) = 3
                   /\ \A k \in 1..3 : filteredAlarmsData.active[k].severity = "CRITICAL"

\* C10 witness: severity CRITICAL has been applied to a canonical active
\* list of 3 CRITICAL and 5 WARNING alarms, all within the time range, and
\* the filtered active list holds 3 records.
FilteredIsConjunctionWitness ==
    /\ filteredAt # << >>
    /\ currentFilters.severity = "CRITICAL"
    /\ currentFilters.module = << "ALL" >>
    /\ currentFilters.timeRange = "6h"
    /\ Len(alarmsData.active) = 8
    /\ Cardinality(OfSeverity(alarmsData.active, "CRITICAL")) = 3
    /\ Cardinality(OfSeverity(alarmsData.active, "WARNING")) = 5
    /\ \A k \in 1..8 : WithinTimeRange(alarmsData.active[k].activatedAt)
    /\ Len(filteredAlarmsData.active) = 3
    /\ Len(filteredAlarmsData.cleared) < Len(alarmsData.cleared)

\* The alarm is one of the list.
InList(alarm, list) == \E k \in 1..Len(list) : list[k] = alarm

\* The time-range tokens that stand for a threshold, and the threshold in
\* hours of each.
ThresholdTokens == { "1h", "6h", "24h", "7d" }

ThresholdHours(token) ==
    CASE token = "1h" -> 1 [] token = "6h" -> 6 [] token = "24h" -> 24 [] token = "7d" -> 168

\* C11: with cutoff = time of the filtering - threshold hours, an active
\* record that passes the severity and module tests is in the filtered
\* active list exactly when activatedAt >= cutoff, and a cleared one in the
\* filtered cleared list exactly when clearedAt >= cutoff, whatever its
\* activatedAt; an alarm activated 2 hours before is not in the active
\* result under 1h.
CutoffIsInclusive ==
    (filteredAt # << >> /\ currentFilters.timeRange \in ThresholdTokens) =>
        LET cutoff == filteredAt[1] - ThresholdHours(currentFilters.timeRange) * HOUR_MS
        IN  /\ \A k \in 1..Len(alarmsData.active) :
                  LET alarm == alarmsData.active[k]
                  IN  (SeverityMatches(alarm) /\ ModuleMatches(alarm)) =>
                          (InList(alarm, filteredAlarmsData.active)
                              <=> alarm.activatedAt >= cutoff)
            /\ \A k \in 1..Len(alarmsData.cleared) :
                  LET alarm == alarmsData.cleared[k]
                  IN  (SeverityMatches(alarm) /\ ModuleMatches(alarm)) =>
                          (InList(alarm, filteredAlarmsData.cleared)
                              <=> alarm.clearedAt[1] >= cutoff)
            /\ currentFilters.timeRange = "1h" =>
                  \A k \in 1..Len(alarmsData.active) :
                      alarmsData.active[k].activatedAt = filteredAt[1] - 2 * HOUR_MS
                          => ~InList(alarmsData.active[k], filteredAlarmsData.active)

\* C11 witness: 1h has been applied; an active alarm activated exactly at
\* the cutoff is kept, one activated 2 hours before is not, and a cleared
\* alarm cleared at the cutoff and activated before it is kept.
CutoffIsInclusiveWitness ==
    /\ filteredAt = << now >>
    /\ currentFilters = [severity |-> "ALL", timeRange |-> "1h", module |-> << "ALL" >>]
    /\ \E k \in 1..Len(alarmsData.active) :
          /\ alarmsData.active[k].activatedAt = now - HOUR_MS
          /\ InList(alarmsData.active[k], filteredAlarmsData.active)
    /\ \E k \in 1..Len(alarmsData.active) :
          /\ alarmsData.active[k].activatedAt = now - 2 * HOUR_MS
          /\ ~InList(alarmsData.active[k], filteredAlarmsData.active)
    /\ \E k \in 1..Len(alarmsData.cleared) :
          /\ alarmsData.cleared[k].clearedAt[1] = now - HOUR_MS
          /\ alarmsData.cleared[k].activatedAt < now - HOUR_MS
          /\ InList(alarmsData.cleared[k], filteredAlarmsData.cleared)

\* The canonical records that pass the severity and module tests and are
\* not in the filtered lists are those older, at the time of the filtering,
\* than limit(token) hours, none when limit(token) is << >>.
ExcludedIffOlderThan(limit) ==
    LET Older(t) == /\ limit # << >>
                    /\ filteredAt[1] - t > limit[1] * HOUR_MS
    IN  /\ \A k \in 1..Len(alarmsData.active) :
              LET alarm == alarmsData.active[k]
              IN  (SeverityMatches(alarm) /\ ModuleMatches(alarm)) =>
                      (~InList(alarm, filteredAlarmsData.active) <=> Older(alarm.activatedAt))
        /\ \A k \in 1..Len(alarmsData.cleared) :
              LET alarm == alarmsData.cleared[k]
              IN  (SeverityMatches(alarm) /\ ModuleMatches(alarm)) =>
                      (~InList(alarm, filteredAlarmsData.cleared) <=> Older(alarm.clearedAt[1]))

CanonicalSetsUnchanged ==
    [][ (generatedAt # << >> /\ generatedAt' = generatedAt /\ drawn' = drawn)
            => alarmsData' = alarmsData ]_vars

\* C13 witness: a filter that keeps fewer records than the canonical lists
\* hold has been applied and its view exported, and the canonical lists are
\* what the generation returned.
CanonicalSetsUnchangedWitness ==
    /\ generatedAt # << >>
    /\ csv # << >>
    /\ currentFilters.severity = "WARNING"
    /\ currentFilters.timeRange = "1h"
    /\ Len(filteredAlarmsData.active) < Len(alarmsData.active)
    /\ Len(filteredAlarmsData.cleared) < Len(alarmsData.cleared)
    /\ alarmsData = generateAlarmsFromModuleData(moduleData, generatedAt[1], drawn[1])

\* ------------------------------------------------------------------------
\* Properties of the export
\* ------------------------------------------------------------------------

\* The last step was an export: only exportToCSV shows a notification.
Exported == notification # ""

\* The number of records of the filtered view.
ViewSize == Len(filteredAlarmsData.active) + Len(filteredAlarmsData.cleared)

\* Record number k of the filtered view, active records first.
ViewRecord(k) ==
    IF k <= Len(filteredAlarmsData.active) THEN filteredAlarmsData.active[k]
    ELSE filteredAlarmsData.cleared[k - Len(filteredAlarmsData.active)]

\* The fixed header line, as its fields.
HeaderLine ==
    << << "Severity" >>, << "Module" >>, << "Status" >>, << "Triggered Time" >>,
       << "Cleared Time" >>, << "Duration" >>, << "Message" >> >>

\* The exported text is the header line followed by one row per record of
\* the view, active rows first, each list in view order.
HeaderAndOneRowPerRecord ==
    /\ csv # << >>
    /\ Len(csv[1]) = 1 + ViewSize
    /\ csv[1][1] = HeaderLine
    /\ \A k \in 1..ViewSize :
          /\ Len(csv[1][k + 1]) = 7
          /\ csv[1][k + 1][1] = << ViewRecord(k).severity >>
          /\ csv[1][k + 1][2] = ViewRecord(k).moduleId
          /\ csv[1][k + 1][3] = IF k <= Len(filteredAlarmsData.active)
                                 THEN << "Active" >> ELSE << "Cleared" >>
          /\ csv[1][k + 1][7] = << getAlarmMessage(ViewRecord(k).type) >>

FieldPieces == { "M", "01", ",", "\"", "\n", "\r" }

\* The fields handed to escapeCSV: up to MaxFieldLen pieces.
Fields == UNION { [ 1..n -> FieldPieces ] : n \in 0..MaxFieldLen }

\* The spans handed to formatDuration: up to MaxDays days, with hours,
\* minutes, seconds and milliseconds at and between the unit borders.
Durations ==
    { ((((d * 24 + h) * 60 + m) * 60) + sec) * 1000 + ms :
        d \in 0..MaxDays, h \in { 0, 1, 23 }, m \in { 0, 5, 59 },
        sec \in { 0, 59 }, ms \in { 0, 999 } }

\* activatedAt - now for the calls of getActiveDuration: an alarm of the
\* past, one of this very millisecond, and alarms whose activation time is
\* ahead of a clock that was set back.
Skews == { 0 - 26 * HOUR_MS, 0 - 5 * 60 * 1000, 0 - 1, 0, 1, 999, 1000, 5000, 2 * HOUR_MS }

CallsInit ==
    /\ PageInit
    /\ AlarmsIdle
    /\ PageIdle
    /\ aggInput = << >>
    /\ aggOutput = << >>
    /\ callResult = << >>
    /\ \/ \E field \in Fields : call = [fn |-> "escapeCSV", args |-> << field >>]
       \/ \E ms \in Durations : call = [fn |-> "formatDuration", args |-> << ms >>]
       \/ \E skew \in Skews :
             call = [fn |-> "getActiveDuration", args |-> << Now0 + skew, Now0 >>]

\* One call of escapeCSV(field).
CallEscapeCSV ==
    /\ callResult = << >>
    /\ call.fn = "escapeCSV"
    /\ callResult' = << escapeCSV(call.args[1]) >>
    /\ UNCHANGED << call, pageVars, sshVars, aggVars, overviewVars, routerVars, console, alarmVars >>

\* One call of formatDuration(milliseconds).
CallFormatDuration ==
    /\ callResult = << >>
    /\ call.fn = "formatDuration"
    /\ callResult' = << formatDuration(call.args[1]) >>
    /\ UNCHANGED << call, pageVars, sshVars, aggVars, overviewVars, routerVars, console, alarmVars >>

\* One call of getActiveDuration(activatedAt) when new Date() is args[2].
CallGetActiveDuration ==
    /\ callResult = << >>
    /\ call.fn = "getActiveDuration"
    /\ callResult' = << getActiveDuration(call.args[1], call.args[2]) >>
    /\ UNCHANGED << call, pageVars, sshVars, aggVars, overviewVars, routerVars, console, alarmVars >>

CallsNext ==
    \/ CallEscapeCSV
    \/ CallFormatDuration
    \/ CallGetActiveDuration

SpecCalls == CallsInit /\ [][CallsNext]_vars

\* The call of fn has returned.
Returned(fn) == callResult # << >> /\ call.fn = fn

\* The number of double quotes among the first k pieces of a field.
QuotesUpTo(field, k) == Cardinality({ j \in 1..k : field[j] = "\"" })

\* out is the field between two double quotes, each double quote of the
\* field written twice.
IsQuoted(field, out) ==
    /\ Len(out) = Len(field) + QuotesUpTo(field, Len(field)) + 2
    /\ out[1] = "\""
    /\ out[Len(out)] = "\""
    /\ \A k \in 1..Len(field) :
          /\ out[1 + k + QuotesUpTo(field, k - 1)] = field[k]
          /\ field[k] = "\"" => out[2 + k + QuotesUpTo(field, k - 1)] = "\""

\* C16 as stated: escapeCSV quotes a field, doubling its double quotes,
\* exactly when it holds a comma, a double quote, a line feed or a carriage
\* return, and returns any other field unchanged; M,01 becomes "M,01".
EscapeQuotesLineBreaks ==
    Returned("escapeCSV") =>
        LET field == call.args[1]
            out   == callResult[1]
        IN  /\ IF \E k \in 1..Len(field) : field[k] \in { ",", "\"", "\n", "\r" }
               THEN IsQuoted(field, out)
               ELSE out = field
            /\ field = << "M", ",", "01" >> => out = << "\"", "M", ",", "01", "\"" >>

\* C17 as stated: in the exported CSV the row of an active record has
\* Status Active, an empty Cleared Time and as Duration the formatted time
\* elapsed from activatedAt to the export; the row of a cleared record has
\* Status Cleared, its stored clearedAt as Cleared Time and its stored
\* duration as Duration.
RowsCarryStatusAndDuration ==
    (Exported /\ csv # << >>) =>
        \A k \in 1..ViewSize :
            LET row   == csv[1][k + 1]
                alarm == ViewRecord(k)
            IN  IF k <= Len(filteredAlarmsData.active)
                THEN /\ row[3] = << "Active" >>
                     /\ row[5] = << >>
                     /\ row[6] = formatDuration(now - alarm.activatedAt)
                ELSE /\ row[3] = << "Cleared" >>
                     /\ row[5] = formatTimestamp(alarm.clearedAt[1])
                     /\ row[6] = alarm.duration[1]

\* C18: for a non-negative whole number of milliseconds formatDuration
\* returns 'Nd Hh' (whole days, hours left over) from one day on, else
\* 'Hh Mm' (whole hours, minutes left over) from one hour on, else 'Mm'
\* from one minute on, else 'Ss'; 5 minutes give '5m'.
DurationIsLargestUnitFirst ==
    Returned("formatDuration") =>
        LET ms     == call.args[1]
            minute == 60 * 1000
            day    == 24 * HOUR_MS
        IN  /\ callResult[1] =
                  IF ms >= day
                  THEN ToDigits(ms \div day) \o << "d", " " >>
                          \o ToDigits((ms % day) \div HOUR_MS) \o << "h" >>
                  ELSE IF ms >= HOUR_MS
                  THEN ToDigits(ms \div HOUR_MS) \o << "h", " " >>
                          \o ToDigits((ms % HOUR_MS) \div minute) \o << "m" >>
                  ELSE IF ms >= minute THEN ToDigits(ms \div minute) \o << "m" >>
                  ELSE ToDigits(ms \div 1000) \o << "s" >>
            /\ ms = 5 * minute => callResult[1] = << "5", "m" >>

\* C18 witness: formatDuration has returned '5m' for 5 minutes.
DurationIsLargestUnitFirstWitness ==
    /\ Returned("formatDuration")
    /\ call.args[1] = 5 * 60 * 1000
    /\ callResult[1] = << "5", "m" >>

\* C19 as stated: when activatedAt is later than now, the elapsed duration
\* getActiveDuration gives is the formatting of 0 milliseconds, '0s', with
\* or without the words 'Active for ' before it.
FutureActivationClampsToZero ==
    (Returned("getActiveDuration") /\ call.args[1] > call.args[2]) =>
        callResult[1] \in { << "0", "s" >>, << "Active for ", "0", "s" >> }

\* ------------------------------------------------------------------------
\* StatusAggregator on its own: getAggregateModuleStatus applied to indicator
\* maps drawn from a bounded set
\* ------------------------------------------------------------------------

\* A label STATUS_VALUES does not hold.
UnknownLabels == { "FAILED" }

\* The indicator map with keys STATUS_TYPES[1..n] and the values of vals.
MapOf(vals) ==
    [ k \in 1..Len(vals) |-> [type |-> STATUS_TYPES[k], status |-> vals[k]] ]

\* Value sequences of length n over the labels in L.
SeqsOf(L, n) == [ 1..n -> L ]

\* The maps the harness draws: maps that hold only the first n <= MaxKeys
\* keys (the other keys are missing), with any values; maps with all 12 keys
\* whose first MaxKeys values are free and the rest OK; and maps with all
\* 12 keys, all OK but one.
AggInputs ==
    LET L == Levels \cup UnknownLabels
        short == UNION { { MapOf(v) : v \in SeqsOf(L, n) } : n \in 0..MaxKeys }
        full  == { MapOf([ k \in 1..Len(STATUS_TYPES) |->
                             IF k <= MaxKeys THEN v[k] ELSE "OK" ]) :
                     v \in SeqsOf(L, MaxKeys) }
        one   == { MapOf([ k \in 1..Len(STATUS_TYPES) |->
                             IF k = p THEN l ELSE "OK" ]) :
                     p \in 1..Len(STATUS_TYPES), l \in L }
    IN  short \cup full \cup one

AggInit ==
    /\ PageInit
    /\ AlarmsIdle
    /\ PageIdle
    /\ aggInput \in AggInputs
    /\ aggOutput = << >>
    /\ call = << >>
    /\ callResult = << >>

\* One call of getAggregateModuleStatus(aggInput).
Aggregate ==
    /\ aggOutput = << >>
    /\ aggOutput' = << getAggregateModuleStatus(aggInput) >>
    /\ console' = AggregateConsole(aggInput)
    /\ UNCHANGED << aggInput, sideVars, overviewVars, routerVars, alarmVars >>

AggNext == Aggregate

SpecAgg == AggInit /\ [][AggNext]_vars

ValuesOf(m) == { m[k].status : k \in 1..Len(m) }

KeysOf(m) == { m[k].type : k \in 1..Len(m) }

AllKnown(m) == ValuesOf(m) \subseteq Levels

AllKeys(m) == KeysOf(m) = { STATUS_TYPES[k] : k \in 1..Len(STATUS_TYPES) }

\* C2: on a map whose values are all known labels the call returns the
\* maximum value under OK < DEGRADED < WARNING < CRITICAL, wherever the
\* entries stand: OK when all are OK, CRITICAL when one is CRITICAL.
AggregateIsMaximum ==
    (aggOutput # << >> /\ AllKnown(aggInput)) =>
        /\ ~aggOutput[1].threw
        /\ aggOutput[1].value = MaxSeverity(ValuesOf(aggInput))
        /\ (ValuesOf(aggInput) \subseteq { "OK" } => aggOutput[1].value = "OK")
        /\ ("CRITICAL" \in ValuesOf(aggInput) => aggOutput[1].value = "CRITICAL")

\* C2 witness: a call returned CRITICAL for a map whose CRITICAL entry
\* follows a WARNING and precedes a DEGRADED one.
AggregateIsMaximumWitness ==
    /\ aggOutput # << >>
    /\ Len(aggInput) >= 3
    /\ aggInput[1].status = "WARNING"
    /\ aggInput[2].status = "CRITICAL"
    /\ aggInput[3].status = "DEGRADED"
    /\ aggOutput = << [threw |-> FALSE, value |-> "CRITICAL"] >>

\* C3 (as claimed): on a map holding an unknown label the call does not
\* fail, counts the unknown value as OK, returns the maximum of the other
\* values and raises a warning.
UnknownLabelCountsAsOK ==
    (aggOutput # << >> /\ ~AllKnown(aggInput)) =>
        /\ ~aggOutput[1].threw
        /\ aggOutput[1].value = MaxSeverity(ValuesOf(aggInput) \cap Levels)
        /\ "warn" \in { console[k] : k \in 1..Len(console) }

TileShowsAggregate ==
    DOMAIN tiles # {} =>
        /\ \A i \in 1..TOTAL_MODULES :
              DisplayedStatus(tiles[modules[i]]) =
                  getAggregateModuleStatus(moduleData[modules[i]]).value
        /\ validateModuleConsistency(moduleData, tiles) = << >>
        /\ validations => inconsistencies = << >> /\ console = << "log", "log" >>

\* C1 witness: a CRITICAL module's tile has been clicked, the route has
\* changed to the alarms view and a validation has run.
TileShowsAggregateWitness ==
    /\ selectedModuleId = ModuleId(7)
    /\ "selected" \in tiles[ModuleId(7)]
    /\ DisplayedStatus(tiles[ModuleId(7)]) = "CRITICAL"
    /\ activeViews = { "view-alarms" }
    /\ validations
    /\ ~validateTimer

====
